---------------------------- MODULE Spec2Model ----------------------------
(***************************************************************************)
(* Model of the Redeem Base server (src/server.js): the three POST         *)
(* handlers /api/card-info, /api/verify-secret and /api/redeem, the        *)
(* helpers they call, and the external collaborators they talk to (the     *)
(* card registry API, the RPC provider and the UniVoucher contract).       *)
(*                                                                         *)
(* A handler runs atomically between two awaits; every await is a program  *)
(* position (pc) of the request, that of an async function of the server   *)
(* which has settled already included, and the continuation after it is    *)
(* one action, whose input is the outcome of the call when the await is on *)
(* the network.  Strings whose text matters (error messages, secrets) are  *)
(* sequences of tokens, so that String.includes and String.replace are     *)
(* computed rather than assumed.                                           *)
(***************************************************************************)
EXTENDS Integers, Sequences, FiniteSets, TLC

VARIABLES
    req,        \* per request: handler, body, position, locals, response, call log
    tx,         \* per request: the transaction it broadcast, and its fate on chain
    active,     \* the contract's active flag of every card
    flips,      \* how many times each card went from active to inactive
    registry,   \* the active flag the registry API reports (it lags the chain)
    dIn,        \* decryptPrivateKey taken alone: its arguments
    dOut        \* decryptPrivateKey taken alone: its outcome

vars == <<req, tx, active, flips, registry, dIn, dOut>>

----------------------------------------------------------------------------
(* Bounds of the model *)

MaxSecretLen == 3
MaxGasEstimate == 2

\* the requests that can be in flight at the same time, and the one that
\* serves request after request
Requests == {"r1", "r2"}
Serial == {"r1"}

----------------------------------------------------------------------------
(* Strings *)

\* String.prototype.includes on token sequences
Includes(s, pat) ==
    \E i \in 1..(Len(s) + 1) :
        /\ i + Len(pat) - 1 <= Len(s)
        /\ \A j \in 1..Len(pat) : s[i + j - 1] = pat[j]

\* cardSecret.replace(/-/g, '')
IsNotHyphen(ch) == ch # "-"
\* the secret used as typed, hyphens and all
StripHyphensNot(s) == s

StripHyphens(s) == SelectSeq(s, IsNotHyphen)

\* the place of the last element of s that is not x, 0 when there is none
LastNot(s, x) ==
    IF \A i \in 1..Len(s) : s[i] = x THEN 0
    ELSE CHOOSE i \in 1..Len(s) : s[i] # x /\ \A j \in (i + 1)..Len(s) : s[j] = x

RECURSIVE SeqsUpTo(_, _)
SeqsUpTo(S, n) ==
    IF n = 0 THEN {<<>>}
    ELSE LET shorter == SeqsUpTo(S, n - 1)
         IN  shorter \cup {Append(s, x) : s \in shorter, x \in S}

----------------------------------------------------------------------------
(* Errors.  A thrown value either carries a message or, being no Error     *)
(* object, has none.  fetch, ethers and crypto throw Error objects.        *)

Error(msg) == [hasMessage |-> TRUE, message |-> msg]
NoMessageError == [hasMessage |-> FALSE, message |-> <<>>]

MsgCardIdRequired == <<"Card", "ID", "required">>
MsgCardNotFound == <<"Card", "not", "found">>
MsgFailedCardInfo == <<"Failed", "to", "get", "card", "information">>
MsgIdSecretRequired == <<"Card", "ID", "and", "secret", "required">>
MsgThisCardRedeemed ==
    <<"This", "card", "has", "already", "been", "redeemed", "or", "cancelled">>
MsgInvalidSecret == <<"Invalid", "card", "secret">>
MsgFailedVerify == <<"Failed", "to", "verify", "card", "secret">>
MsgAllRequired ==
    <<"Card", "ID,", "secret,", "and", "recipient", "address", "required">>
MsgInvalidRecipient == <<"Invalid", "recipient", "address">>
MsgCardRedeemed ==
    <<"Card", "has", "already", "been", "redeemed", "or", "cancelled">>
MsgFailedRedeem == <<"Failed", "to", "redeem", "card">>
MsgUnsupportedChain == <<"Unsupported", "chain">>
MsgInvalidCiphertext == <<"Invalid", "ciphertext", "length">>

\* What the network, the RPC provider or the contract may throw.  The text is
\* theirs: it may be anything, also a text the catch block of /api/redeem
\* looks for.
UpstreamErrors ==
    { Error(<<"network", "timeout">>),
      Error(<<"execution", "reverted:">> \o MsgInvalidSecret),
      Error(<<"execution", "reverted:">> \o MsgThisCardRedeemed) }

----------------------------------------------------------------------------
(* Configuration *)

AddressZero == "0x0000000000000000000000000000000000000000"
PARTNER_ADDRESS == "0xPartner"
SERVICE_PRIVATE_KEY == "service-key"
UNIVOUCHER_ADDRESS == "0x51553818203e38ce0E78e4dA05C07ac779ec5b58"

SupportedChainIds == {1, 56, 137, 10, 42161, 8453, 43114}

CHAINS ==
    [id \in SupportedChainIds |->
        [symbol |-> CASE id = 1 -> "ETH" [] id = 56 -> "BNB" [] id = 137 -> "POL"
                      [] id = 10 -> "ETH" [] id = 42161 -> "ETH"
                      [] id = 8453 -> "ETH" [] id = 43114 -> "AVAX",
         name |-> CASE id = 1 -> "Ethereum" [] id = 56 -> "BNB Chain"
                    [] id = 137 -> "Polygon" [] id = 10 -> "Optimism"
                    [] id = 42161 -> "Arbitrum" [] id = 8453 -> "Base"
                    [] id = 43114 -> "Avalanche",
         decimals |-> 18]]

\* getProvider: throws for a chain id that is not in CHAINS
getProvider(chainId) ==
    IF chainId \in SupportedChainIds
    THEN [ok |-> TRUE, error |-> NoMessageError]
    ELSE [ok |-> FALSE, error |-> Error(MsgUnsupportedChain)]

getExplorerUrl(chainId) ==
    CASE chainId = 1 -> "https://etherscan.io"
      [] chainId = 56 -> "https://bscscan.com"
      [] chainId = 137 -> "https://polygonscan.com"
      [] chainId = 10 -> "https://optimistic.etherscan.io"
      [] chainId = 42161 -> "https://arbiscan.io"
      [] chainId = 8453 -> "https://basescan.org"
      [] chainId = 43114 -> "https://snowtrace.io"
      [] OTHER -> "https://etherscan.io"

----------------------------------------------------------------------------
(* The secret decryption engine *)

AuthTagLength == 16

\* the character U+0000
NUL == "\\u0000"

\* the block of SHA-256, in bytes
HmacBlockSize == 64

\* the length of a SHA-256 digest, in bytes
DigestLength == 32

\* the text of a byte string, for naming the bytes of its digest
RECURSIVE Joined(_)
Joined(bytes) ==
    IF Len(bytes) = 0 THEN ""
    ELSE IF Len(bytes) = 1 THEN bytes[1]
    ELSE Joined(SubSeq(bytes, 1, Len(bytes) \div 2))
             \o Joined(SubSeq(bytes, Len(bytes) \div 2 + 1, Len(bytes)))

\* Byte i of the SHA-256 digest of a byte string.  A byte of a digest is any
\* byte: the digests of the strings that begin with "H" have a hyphen for
\* second byte, those of the strings that begin with "N" end with a NUL
\* byte; every other byte is named by the string that was hashed and by its
\* place, so that two strings have the same digest only if they are the same
\* string.
DigestByte(bytes, i) ==
    IF bytes # <<>> /\ bytes[1] = "H" /\ i = 2 THEN "-"
    ELSE IF bytes # <<>> /\ bytes[1] = "N" /\ i = DigestLength THEN NUL
    ELSE "sha256(" \o Joined(bytes) \o ")" \o ToString(i)

\* SHA-256 of a byte string: DigestLength bytes
Sha256(bytes) ==
    SubSeq([i \in 1..DigestLength |-> DigestByte(bytes, i)], 1, DigestLength)

\* The key HMAC-SHA256 works with.  A password longer than a block is
\* replaced by its digest; the password, or the digest, is then filled up to
\* the block with NUL bytes, so that the NULs it ends with are lost.  A
\* password of more than a block and the password whose bytes are its digest
\* are the same key.
HmacKey(password) ==
    IF Len(password) > HmacBlockSize
    THEN SubSeq(Sha256(password), 1, LastNot(Sha256(password), NUL))
    ELSE SubSeq(password, 1, LastNot(password, NUL))

\* crypto.pbkdf2Sync(normalizedSecret, salt, 310000, 32, 'sha256'): the key is
\* a function of the HMAC key of the password and of the salt, and different
\* ones give different keys.
pbkdf2Sync(normalizedSecret, salt) == <<HmacKey(normalizedSecret), salt>>

\* An envelope is the string card.encryptedPrivateKey, described by what
\* decryptPrivateKey can observe of it:
\*   json     JSON.parse accepts it
\*   fields   salt, iv and ciphertext are there and Buffer.from takes them
\*   salt     the salt it names
\*   ctLen    the length in bytes of the decoded ciphertext
\*   sealKey  the key the ciphertext and its tag were made with
\*   tagOk    the trailing 16 bytes are the tag the issuer computed
\*   secret   the plaintext the issuer sealed (the one-time private key)
Thrown(msg) == [ok |-> FALSE, value |-> "", error |-> Error(msg)]
Returned(v) == [ok |-> TRUE, value |-> v, error |-> NoMessageError]

\* The body of the try block of decryptPrivateKey (lines 57 to 80).
decryptAttempt(encryptedData, cardSecret) ==
    IF ~encryptedData.json THEN Thrown(<<"Unexpected", "token">>)
    ELSE IF ~encryptedData.fields THEN Thrown(<<"argument", "must", "be", "a", "string">>)
    ELSE LET normalizedSecret == StripHyphens(cardSecret)
             key == pbkdf2Sync(normalizedSecret, encryptedData.salt)
         IN  IF encryptedData.ctLen < AuthTagLength THEN Thrown(MsgInvalidCiphertext)
             ELSE IF key # encryptedData.sealKey \/ ~encryptedData.tagOk
             THEN Thrown(<<"unable", "to", "authenticate", "data">>)
             ELSE IF encryptedData.ctLen = AuthTagLength THEN Returned("")
             ELSE Returned(encryptedData.secret)

\* decryptPrivateKey with the catch dropped: the failure of the step that
\* failed reaches the caller.
decryptPrivateKeyRethrows(encryptedData, cardSecret) ==
    decryptAttempt(encryptedData, cardSecret)

\* decryptPrivateKey with the authentication tag never checked: whatever the
\* key, the cipher's output is returned
decryptPrivateKeyUnauthenticated(encryptedData, cardSecret) ==
    LET attempt == decryptAttempt(encryptedData, cardSecret)
    IN  IF attempt.ok THEN attempt
        ELSE IF encryptedData.json /\ encryptedData.fields
                /\ encryptedData.ctLen >= AuthTagLength
        THEN Returned("garbage")
        ELSE Thrown(MsgInvalidSecret)

decryptPrivateKey(encryptedData, cardSecret) ==
    LET attempt == decryptAttempt(encryptedData, cardSecret)
    IN  IF attempt.ok THEN attempt ELSE Thrown(MsgInvalidSecret)

----------------------------------------------------------------------------
(* Amounts.  An amount is its decimal digits, most significant first.  The  *)
(* number formatTokenAmount works on is an IEEE 754 double: parseFloat      *)
(* rounds the decimal text to 53 significant bits, and toString and toFixed *)
(* print that double, not the text.                                         *)

Zeros(n) == [i \in 1..n |-> 0]

IsZero(digits) == \A i \in 1..Len(digits) : digits[i] = 0
IsOdd(digits) == digits # <<>> /\ digits[Len(digits)] % 2 = 1

\* the place of the first digit that is not zero, 0 when there is none
FirstNotZero(digits) ==
    IF IsZero(digits) THEN 0
    ELSE CHOOSE i \in 1..Len(digits) :
            digits[i] # 0 /\ \A j \in 1..(i - 1) : digits[j] = 0

\* the digits of the number plus one
Increment(digits) ==
    LET n == Len(digits)
        p == LastNot(digits, 9)
    IN  IF p = 0 THEN <<1>> \o Zeros(n)
        ELSE SubSeq(digits, 1, p - 1) \o <<digits[p] + 1>> \o Zeros(n - p)

TrimTrailingZeros(digits) == SubSeq(digits, 1, LastNot(digits, 0))

\* the digits of the number with no leading zero; zero is <<0>>
TrimLeadingZeros(digits) ==
    IF IsZero(digits) THEN <<0>>
    ELSE SubSeq(digits, FirstNotZero(digits), Len(digits))

\* a < b, for two numbers with no leading zeros
Less(a, b) ==
    IF Len(a) # Len(b) THEN Len(a) < Len(b)
    ELSE \E i \in 1..Len(a) : a[i] < b[i] /\ \A j \in 1..(i - 1) : a[j] = b[j]

\* the number times two: a digit carries exactly when it is 5 or more
Twice(digits) ==
    LET n == Len(digits)
        body == [i \in 1..n |->
                    (2 * digits[i]
                       + (IF i < n /\ digits[i + 1] >= 5 THEN 1 ELSE 0)) % 10]
    IN  (IF n > 0 /\ digits[1] >= 5 THEN <<1>> ELSE <<>>) \o SubSeq(body, 1, n)

\* the number divided by two, rounded down
Half(digits) ==
    LET n == Len(digits)
        body == [i \in 1..n |->
                    (digits[i] + (IF i > 1 /\ digits[i - 1] % 2 = 1 THEN 10 ELSE 0))
                        \div 2]
    IN  IF n > 1 /\ digits[1] = 1 THEN SubSeq(body, 2, n) ELSE SubSeq(body, 1, n)

TimesFive(digits) == Half(Append(digits, 0))

RECURSIVE TimesTwoTo(_, _)
\* digits * 2^n
TimesTwoTo(digits, n) ==
    IF digits = <<>> \/ n = 0 THEN digits
    ELSE IF n = 1 THEN Twice(digits)
    ELSE TimesTwoTo(TimesTwoTo(digits, n \div 2), n - n \div 2)

RECURSIVE DivTwoTo(_, _)
\* digits / 2^n, rounded down
DivTwoTo(digits, n) ==
    IF digits = <<>> \/ n = 0 THEN digits
    ELSE IF n = 1 THEN Half(digits)
    ELSE DivTwoTo(DivTwoTo(digits, n \div 2), n - n \div 2)

RECURSIVE TimesFiveTo(_, _)
\* digits * 5^n
TimesFiveTo(digits, n) ==
    IF digits = <<>> \/ n = 0 THEN digits
    ELSE IF n = 1 THEN TimesFive(digits)
    ELSE TimesFiveTo(TimesFiveTo(digits, n \div 2), n - n \div 2)

\* floor(number / 10^d), and the d digits it leaves
WholePart(digits, d) ==
    IF Len(digits) <= d THEN <<0>> ELSE SubSeq(digits, 1, Len(digits) - d)
FracPart(digits, d) ==
    IF Len(digits) >= d THEN SubSeq(digits, Len(digits) - d + 1, Len(digits))
    ELSE Zeros(d - Len(digits)) \o digits

\* 10^Len(digits) - digits
TenToMinus(digits) ==
    Increment(SubSeq([i \in 1..Len(digits) |-> 9 - digits[i]], 1, Len(digits)))

DigitText(digits) == [i \in 1..Len(digits) |-> ToString(digits[i])]

RECURSIVE IntDigits(_)
IntDigits(n) == IF n < 10 THEN <<n>> ELSE Append(IntDigits(n \div 10), n % 10)

\* ethers.utils.formatUnits(amount, decimals): the text whole.fraction of
\* amount / 10^decimals, the fraction without trailing zeros ("0" at least),
\* and the whole part alone for 0 decimals
formatUnits(amount, decimals) ==
    LET value == TrimLeadingZeros(amount)
        fraction == TrimTrailingZeros(FracPart(value, decimals))
    IN  [whole |-> WholePart(value, decimals),
         frac |-> IF decimals = 0 THEN <<>>
                  ELSE IF fraction = <<>> THEN <<0>> ELSE fraction]

\* A double is mantissa * 2^exponent, the mantissa a whole number of 53 bits
\* (2^52 <= mantissa < 2^53), or zero.
MantissaBits == 53
MinMantissa == TimesTwoTo(<<1>>, MantissaBits - 1)
MaxMantissa == TimesTwoTo(<<1>>, MantissaBits)

Double(mantissa, exponent) ==
    IF mantissa = MaxMantissa
    THEN [mantissa |-> MinMantissa, exponent |-> exponent + 1]
    ELSE [mantissa |-> mantissa, exponent |-> exponent]

RECURSIVE StepOver(_, _)
\* the first of step, 2 * step, 4 * step, ... that is more than n
StepOver(step, n) == IF step > n THEN step ELSE StepOver(2 * step, n)

RECURSIVE ScaleUp(_, _, _, _)
\* n * 2^k for the largest k that leaves the whole part of n * 2^k / 10^d
\* below 2^53, k found bit by bit
ScaleUp(n, d, k, step) ==
    IF step = 0 THEN [n |-> n, k |-> k]
    ELSE LET more == TimesTwoTo(n, step)
         IN  IF Less(WholePart(more, d), MaxMantissa)
             THEN ScaleUp(more, d, k + step, step \div 2)
             ELSE ScaleUp(n, d, k, step \div 2)

RECURSIVE ScaleDown(_, _, _)
\* floor(w / 2^j) for the largest j that leaves it at 2^53 or more
ScaleDown(w, j, step) ==
    IF step = 0 THEN [w |-> w, j |-> j]
    ELSE LET less == DivTwoTo(w, step)
         IN  IF Less(less, MaxMantissa) THEN ScaleDown(w, j, step \div 2)
             ELSE ScaleDown(less, j + step, step \div 2)

\* the fraction `rest` left below the mantissa m is more than a half, or a half
\* and m is odd
RoundsUp(m, rest) ==
    /\ rest # <<>>
    /\ \/ rest[1] > 5
       \/ rest[1] = 5 /\ (~IsZero(Tail(rest)) \/ IsOdd(m))

\* the double of up.n / 10^d / 2^up.k, the whole part of up.n / 10^d of 53 bits
RoundedUp(up, d) ==
    LET m == WholePart(up.n, d)
    IN  Double(IF RoundsUp(m, FracPart(up.n, d)) THEN Increment(m) ELSE m, -up.k)

\* the double of a whole number and, if inexact, a fraction: down.w is
\* floor(whole / 2^down.j), of 54 bits
RoundedDown(down, whole, inexact) ==
    LET m == Half(down.w)
    IN  Double(IF /\ IsOdd(down.w)
                  /\ (TimesTwoTo(down.w, down.j) # whole \/ inexact \/ IsOdd(m))
               THEN Increment(m) ELSE m,
               down.j + 1)

\* The double nearest to n / 10^d, the one with the even mantissa when two
\* are equally near.  Fewer than 53 + 4 * d doublings bring n / 10^d to 53
\* bits, and fewer than 4 * Len(n) halvings.
Nearby(n, d) ==
    IF IsZero(n) THEN [mantissa |-> <<0>>, exponent |-> 0]
    ELSE IF Less(WholePart(n, d), MaxMantissa)
    THEN RoundedUp(ScaleUp(n, d, 0, StepOver(1, MantissaBits + 4 * d) \div 2), d)
    ELSE RoundedDown(ScaleDown(WholePart(n, d), 0, StepOver(1, 4 * Len(n)) \div 2),
                     WholePart(n, d), ~IsZero(FracPart(n, d)))

\* parseFloat of the text whole.frac
parseFloat(text) == Nearby(TrimLeadingZeros(text.whole \o text.frac), Len(text.frac))

\* the exact decimal digits of a double: m / 2^k = m * 5^k / 10^k
DecimalOf(x) ==
    IF x.exponent >= 0
    THEN [whole |-> TimesTwoTo(x.mantissa, x.exponent), frac |-> <<>>]
    ELSE LET scaled == TimesFiveTo(x.mantissa, -x.exponent)
         IN  [whole |-> WholePart(scaled, -x.exponent),
              frac |-> TrimTrailingZeros(FracPart(scaled, -x.exponent))]

\* formatted % 1 === 0
IsInteger(x) == DecimalOf(x).frac = <<>>

Within(distance, gap, inclusive) ==
    Less(distance, gap) \/ (inclusive /\ distance = gap)

\* no double needs more significant digits than this to be told from the
\* doubles next to it
MaxDigits == 17

\* Of the multiple of 10^j below V (lead) and the one above (lead + 1), at
\* the distances down and up, the nearer one that is within the gap to the
\* next double on its side, the even one of two equally near; <<>> if none
\* is.
Pick(lead, down, up, below, above, inclusive) ==
    IF /\ lead # <<>>
       /\ Within(down, below, inclusive)
       /\ \/ ~Within(up, above, inclusive)
          \/ Less(down, up)
          \/ (down = up /\ ~IsOdd(lead))
    THEN lead
    ELSE IF Within(up, above, inclusive) THEN Increment(lead) ELSE <<>>

\* The multiple of 10^j nearest to V, given as its digits before the j
\* zeros, if it is nearer to V than to the doubles next to V; <<>> if none
\* is.  Distances and gaps are taken four times.
Nearest(V, j, below, above, inclusive) ==
    Pick(SubSeq(V, 1, Len(V) - j),
         TrimLeadingZeros(Twice(Twice(SubSeq(V, Len(V) - j + 1, Len(V))))),
         TrimLeadingZeros(Twice(Twice(TenToMinus(SubSeq(V, Len(V) - j + 1, Len(V)))))),
         below, above, inclusive)

\* the most zeros a decimal within the gaps around V ends with
ZerosOf(V, below, above, inclusive) ==
    CHOOSE j \in (IF Len(V) > MaxDigits THEN Len(V) - MaxDigits ELSE 0)..Len(V) :
        /\ Nearest(V, j, below, above, inclusive) # <<>>
        /\ \A i \in (j + 1)..Len(V) : Nearest(V, i, below, above, inclusive) = <<>>

\* The digits s of a number 0.s * 10^n as toString writes them: plain
\* digits when the decimal point lies within 21 digits and no more than 6
\* zeros follow it, exponent notation otherwise.
Notation(s, n) ==
    LET k == Len(s)
    IN  IF k <= n /\ n <= 21 THEN DigitText(s \o Zeros(n - k))
        ELSE IF 0 < n /\ n <= 21
        THEN DigitText(SubSeq(s, 1, n)) \o <<".">> \o DigitText(SubSeq(s, n + 1, k))
        ELSE IF -6 < n /\ n <= 0
        THEN <<"0", ".">> \o DigitText(Zeros(-n) \o s)
        ELSE (IF k = 1 THEN DigitText(s)
              ELSE <<ToString(s[1]), ".">> \o DigitText(SubSeq(s, 2, k)))
             \o <<"e", IF n - 1 >= 0 THEN "+" ELSE "-">>
             \o DigitText(IntDigits(IF n - 1 >= 0 THEN n - 1 ELSE 1 - n))

Written(digits, zeros, scale) ==
    Notation(TrimTrailingZeros(digits), Len(digits) + zeros - scale)

Shortest(V, zeros, below, above, inclusive, scale) ==
    Written(Nearest(V, zeros, below, above, inclusive), zeros, scale)

\* the fewest digits that parse back to the double V / 10^scale, whose
\* neighbours lie below / 2 under it and above / 2 over it
ShortestBetween(V, below, above, inclusive, scale) ==
    Shortest(V, ZerosOf(V, below, above, inclusive), below, above, inclusive, scale)

\* the gap under a double is half the gap over it when its mantissa is 2^52
ShortestOf(V, ulp, mantissa, scale) ==
    ShortestBetween(V, IF mantissa = MinMantissa THEN ulp ELSE Twice(ulp), Twice(ulp),
                    ~IsOdd(mantissa), scale)

\* Number.prototype.toString: the fewest digits that parse back to the
\* double, in the notation of the language
numberToString(x) ==
    IF IsZero(x.mantissa) THEN <<"0">>
    ELSE IF x.exponent >= 0
    THEN ShortestOf(TimesTwoTo(x.mantissa, x.exponent), TimesTwoTo(<<1>>, x.exponent),
                    x.mantissa, 0)
    ELSE ShortestOf(TimesFiveTo(x.mantissa, -x.exponent),
                    TimesFiveTo(<<1>>, -x.exponent), x.mantissa, -x.exponent)

\* the digits of exact, times 10^fractionDigits, rounded to a whole number,
\* a half rounded up
Rounded(exact, fractionDigits) ==
    LET n == TrimLeadingZeros(exact.whole
                              \o SubSeq(exact.frac \o Zeros(fractionDigits),
                                        1, fractionDigits))
    IN  IF Len(exact.frac) > fractionDigits /\ exact.frac[fractionDigits + 1] >= 5
        THEN Increment(n) ELSE n

Fixed(rounded, fractionDigits) ==
    DigitText(WholePart(rounded, fractionDigits))
    \o (IF fractionDigits = 0 THEN <<>>
        ELSE <<".">> \o DigitText(FracPart(rounded, fractionDigits)))

FixedOf(x, exact, fractionDigits) ==
    IF Len(exact.whole) > 21 THEN numberToString(x)
    ELSE Fixed(Rounded(exact, fractionDigits), fractionDigits)

\* Number.prototype.toFixed(fractionDigits): the exact value of the double
\* rounded to that many decimals, a half rounded up; toString from 10^21 on
toFixed(x, fractionDigits) == FixedOf(x, DecimalOf(x), fractionDigits)

\* text.replace(/\.?0+$/, ''): the zeros the text ends with are dropped,
\* and the point before them
replaceTrailingZeros(text) ==
    LET last == LastNot(text, "0")
    IN  IF last = Len(text) THEN text
        ELSE IF last > 0 /\ text[last] = "." THEN SubSeq(text, 1, last - 1)
        ELSE SubSeq(text, 1, last)

FractionDigits == 6

formatTokenAmount(amount, decimals) ==
    LET formatted == parseFloat(formatUnits(amount, decimals))
    IN  IF IsInteger(formatted) THEN numberToString(formatted)
        ELSE replaceTrailingZeros(toFixed(formatted, FractionDigits))

----------------------------------------------------------------------------
(* The cards the registry knows, as its API returns them *)

Cards == {"c1", "c2", "c3", "c4"}
RaceCards == {"c1", "c2"}
UnknownCardId == "c9"

IssuedSecret == <<"A", "-", "B">>

Envelope(salt, privateKey) ==
    [json |-> TRUE, fields |-> TRUE, salt |-> salt, ctLen |-> 48,
     sealKey |-> pbkdf2Sync(StripHyphens(IssuedSecret), salt), tagOk |-> TRUE,
     secret |-> privateKey]

NoEnvelope ==
    [json |-> FALSE, fields |-> FALSE, salt |-> "", ctLen |-> 0,
     sealKey |-> pbkdf2Sync(<<>>, ""), tagOk |-> FALSE, secret |-> ""]

TokenContract == "0xToken"

\* what the envelope of c4 holds
NotAKey == "not a private key"

\* c1: native asset on Ethereum; c2: a token on Base; c3: on a chain that is
\* not in CHAINS; c4: as c1, the envelope sealed over a text that is no key.
CardRecord(c, isActive) ==
    [cardId |-> c,
     known |-> TRUE,
     active |-> isActive,
     chainId |-> CASE c \in {"c1", "c4"} -> 1 [] c = "c2" -> 8453 [] OTHER -> 5,
     tokenAddress |-> IF c = "c2" THEN TokenContract ELSE AddressZero,
     tokenAmount |-> CASE c = "c1" -> <<1, 5>> \o Zeros(17)
                       [] c = "c2" -> <<2, 5>> \o Zeros(5)
                       [] OTHER -> <<1>> \o Zeros(18),
     encryptedPrivateKey |-> Envelope("salt-" \o c,
                                      IF c = "c4" THEN NotAKey ELSE "key-" \o c),
     slotId |-> "slot-" \o c,
     status |-> IF isActive THEN "active" ELSE "redeemed",
     createdAt |-> "2025-01-01",
     creator |-> "0xCreator",
     message |-> IF c = "c1" THEN "" ELSE "hello"]

NoCard ==
    [cardId |-> "", known |-> FALSE, active |-> FALSE, chainId |-> 0,
     tokenAddress |-> "", tokenAmount |-> <<0>>,
     encryptedPrivateKey |-> NoEnvelope, slotId |-> "", status |-> "",
     createdAt |-> "", creator |-> "",
     message |-> ""]

----------------------------------------------------------------------------
(* Requests and responses *)

\* what a caller may send
CardIdInputs == {"", "c1", "c2", "c3", "c4", UnknownCardId}
SecretInputs == {<<>>, IssuedSecret, <<"a", "-", "b">>, <<"A", "B", NUL>>}
WellFormedAddresses == {"0xA", "0xB"}
\* 0x and 40 hex digits: the recipients above and the null address
HexAddresses == WellFormedAddresses \cup {AddressZero}
\* 40 hex digits with no 0x before them
UnprefixedAddresses == {"C"}
\* an address in the ICAP format: XE, two check digits, 30 or 31 digits in
\* base 36
IcapAddresses == {"XE7338O073KYGTWWZN0F2WZ0R8PX5ZPPZS"}
RecipientInputs ==
    {"", "not-an-address"} \cup WellFormedAddresses \cup UnprefixedAddresses
        \cup IcapAddresses

\* ethers.utils.isAddress (ethers v5): getAddress takes the 40 hex digits
\* with or without the 0x, and an ICAP address
isAddress(address) ==
    address \in HexAddresses \cup UnprefixedAddresses \cup IcapAddresses

NoResponse == [status |-> 0, body |-> {}]
Json(status, fields) == [status |-> status, body |-> fields]
ErrorJson(status, msg) == Json(status, {<<"error", msg>>})

Answered(response) == [answered |-> TRUE, response |-> response]
\* the handler's promise rejected: the handler wrote nothing to res
Unanswered == [answered |-> FALSE, response |-> NoResponse]

NoSignature == [signer |-> "", cardId |-> "", to |-> ""]
NoTx ==
    [state |-> "none", cardId |-> "", to |-> "", signature |-> NoSignature,
     partner |-> "", gasLimit |-> 0, gasPrice |-> 0, from |-> ""]

\* no contract.estimateGas.redeemCard call made yet
NoEstimate == [cardId |-> "", to |-> "", signature |-> NoSignature, partner |-> ""]

\* no answer of the registry held: response.json() is not awaited
NoBody == [kind |-> "none", status |-> 0, card |-> NoCard, error |-> NoMessageError]

\* decryptPrivateKey not called
NotCalled == [ok |-> FALSE, value |-> "", error |-> NoMessageError]

\* no promise of getOptimalGasPrice awaited
NoPromise == [ok |-> TRUE, value |-> 0, error |-> NoMessageError]

NoTokenInfo == [symbol |-> "", decimals |-> 0]

IdleRequest ==
    [handler |-> "none", cardId |-> "", cardSecret |-> <<>>,
     recipientAddress |-> "", pc |-> "idle", card |-> NoCard,
     signature |-> NoSignature, gasLimit |-> 0, gasPrice |-> 0, txHash |-> "",
     response |-> NoResponse, calls |-> <<>>, registryStatus |-> 0,
     failed |-> "", estimate |-> NoEstimate, gasEstimate |-> 0,
     gasPriceThrows |-> 0, tokenQueryFailed |-> FALSE,
     body |-> NoBody, decrypted |-> NotCalled, settled |-> NoPromise,
     tokenInfo |-> NoTokenInfo]

Count(log, name) == Cardinality({i \in 1..Len(log) : log[i] = name})

\* the request after its handler ended with `result`
Ended(request, result) ==
    [request EXCEPT !.pc = IF result.answered THEN "done" ELSE "crashed",
                    !.response = result.response]

\* the request after the call of `stage` threw and the handler's catch block
\* ended it with `result`
Caught(request, stage, result) ==
    [Ended(request, result) EXCEPT !.failed = stage]

\* the request holding the HTTP status of the registry's answer
Fetched(request, out) == [request EXCEPT !.registryStatus = out.status]

\* response.ok
ResponseOk(status) == status >= 200 /\ status <= 299

----------------------------------------------------------------------------
(* The external collaborators *)

\* the statuses the registry answers a known card with
SuccessStatuses == {200, 201}

\* what response.json() throws for a body that is no JSON: for an empty
\* body a fixed text, for any other body a text that quotes the body
JsonErrors ==
    {Error(<<"Unexpected", "end", "of", "JSON", "input">>),
     Error(<<"Unexpected", "token", "'I',">> \o MsgInvalidSecret
               \o <<"is", "not", "valid", "JSON">>)}

\* GET https://api.univoucher.com/v1/cards/single?id=...: the status and the
\* card (kind "status"), a status with a body that is no JSON (kind "body"),
\* or no answer (kind "throw")
RegistryOutcomes(cardId) ==
    (IF cardId \in Cards
     THEN {[kind |-> "status", status |-> status,
            card |-> CardRecord(cardId, registry[cardId]), error |-> NoMessageError] :
              status \in SuccessStatuses}
     ELSE {[kind |-> "status", status |-> 404, card |-> NoCard,
            error |-> NoMessageError]})
    \cup {[kind |-> "status", status |-> 503, card |-> NoCard, error |-> NoMessageError]}
    \cup {[kind |-> "body", status |-> 200, card |-> NoCard, error |-> e] :
            e \in JsonErrors}
    \cup {[kind |-> "throw", status |-> 0, card |-> NoCard, error |-> e] :
            e \in UpstreamErrors}

\* symbol() and decimals() of the token contract
TokenQueryOutcomes ==
    {[ok |-> TRUE, symbol |-> "USDC", decimals |-> 6],
     [ok |-> FALSE, symbol |-> "", decimals |-> 0]}

\* The UniVoucher contract's redeemCard: it takes the redemption if the card
\* is active and the signature is the card key's signature over this card id
\* and this recipient.
ContractAccepts(cardId, to, signature) ==
    /\ cardId \in Cards
    /\ active[cardId]
    /\ signature.signer = CardRecord(cardId, TRUE).encryptedPrivateKey.secret
    /\ signature.cardId = cardId
    /\ signature.to = to

RpcValue(v) == [ok |-> TRUE, value |-> v, error |-> NoMessageError]
RpcThrows == {[ok |-> FALSE, value |-> 0, error |-> e] : e \in UpstreamErrors}

GasEstimates == {4 + g : g \in 1..MaxGasEstimate}
GasPrices == {30}

\* contract.estimateGas.redeemCard(...): the node runs the call on the
\* current state, and fails if it reverts
EstimateOutcomes(cardId, to, signature) ==
    RpcThrows \cup
    (IF ContractAccepts(cardId, to, signature)
     THEN {RpcValue(g) : g \in GasEstimates} ELSE {})

GasPriceOutcomes == RpcThrows \cup {RpcValue(p) : p \in GasPrices}

\* contract.redeemCard(..., {gasLimit, gasPrice}): the transaction is signed
\* by the service wallet and broadcast, or the call throws
TxHash(r) == "0xtx-" \o r
SendOutcomes(r) ==
    {[ok |-> FALSE, value |-> "", error |-> e] : e \in UpstreamErrors}
    \cup {[ok |-> TRUE, value |-> TxHash(r), error |-> NoMessageError]}

\* tx.wait(): the receipt once the transaction is mined with status 1; it
\* throws when the transaction reverted, and whenever the provider fails
WaitOutcomes(r) ==
    RpcThrows \cup (IF tx[r].state = "confirmed" THEN {RpcValue(1)} ELSE {})

----------------------------------------------------------------------------
(* Helpers of the handlers *)

\* getTokenInfo, given the outcome of the token query it makes for a token
\* that is not the native asset
getTokenInfo(tokenAddress, chainId, query) ==
    IF tokenAddress = AddressZero
    THEN [symbol |-> CHAINS[chainId].symbol, decimals |-> CHAINS[chainId].decimals]
    ELSE IF query.ok
    THEN [symbol |-> query.symbol, decimals |-> query.decimals]
    ELSE [symbol |-> "TOKEN", decimals |-> 18]

NoQuery == [ok |-> FALSE, symbol |-> "", decimals |-> 0]

\* formatTokenAmount of the amount of each card, by each number of decimals
\* getTokenInfo can resolve, computed once
FormattedAmounts ==
    {<<amount, decimals, formatTokenAmount(amount, decimals)>> :
        amount \in {CardRecord(c, TRUE).tokenAmount : c \in Cards},
        decimals \in {query.decimals : query \in TokenQueryOutcomes}
                      \cup {CHAINS[id].decimals : id \in SupportedChainIds}
                      \cup {18}}

\* `${formatTokenAmount(card.tokenAmount, tokenInfo.decimals)} ${tokenInfo.symbol}`
FormattedAmount(card, tokenInfo) ==
    (IF \E f \in FormattedAmounts :
            f[1] = card.tokenAmount /\ f[2] = tokenInfo.decimals
     THEN (CHOOSE f \in FormattedAmounts :
              f[1] = card.tokenAmount /\ f[2] = tokenInfo.decimals)[3]
     ELSE formatTokenAmount(card.tokenAmount, tokenInfo.decimals))
    \o <<" ", tokenInfo.symbol>>

Bool(b) == IF b THEN <<"true">> ELSE <<"false">>

\* res.json({...}) of /api/card-info
CardInfoJson(card, tokenInfo) ==
    Json(200,
         {<<"cardId", <<card.cardId>>>>,
          <<"slotId", <<card.slotId>>>>,
          <<"chainId", <<ToString(card.chainId)>>>>,
          <<"chainName", <<IF card.chainId \in SupportedChainIds
                            THEN CHAINS[card.chainId].name ELSE "Unknown">>>>,
          <<"active", Bool(card.active)>>,
          <<"status", <<card.status>>>>,
          <<"createdAt", <<card.createdAt>>>>,
          <<"tokenAddress", <<card.tokenAddress>>>>,
          <<"tokenAmount", DigitText(card.tokenAmount)>>,
          <<"formattedAmount", FormattedAmount(card, tokenInfo)>>,
          <<"creator", <<card.creator>>>>,
          <<"message", <<card.message>>>>,
          <<"encryptedPrivateKey", <<"envelope", card.encryptedPrivateKey.salt>>>>})

\* res.json({...}) of /api/redeem
RedeemJson(request, tokenInfo) ==
    Json(200,
         {<<"success", Bool(TRUE)>>,
          <<"txHash", <<request.txHash>>>>,
          <<"recipientAddress", <<request.recipientAddress>>>>,
          <<"partnerAddress", <<"null">>>>,
          <<"amount", FormattedAmount(request.card, tokenInfo)>>,
          <<"explorerUrl", <<getExplorerUrl(request.card.chainId), "/tx/", request.txHash>>>>})

\* the catch block of /api/card-info
cardInfoCatch(error) == Answered(ErrorJson(500, MsgFailedCardInfo))

\* the outer catch block of /api/verify-secret
verifySecretCatch(error) == Answered(ErrorJson(500, MsgFailedVerify))

\* redeemCatch without the branch of line 294
redeemCatchNoSecretBranch(error) ==
    IF ~error.hasMessage THEN Unanswered
    ELSE IF Includes(error.message, MsgThisCardRedeemed)
    THEN Answered(ErrorJson(400, MsgCardRedeemed))
    ELSE Answered(ErrorJson(500, MsgFailedRedeem))

\* redeemCatch answering 500 with the text of the error it caught
redeemCatchLeaks(error) ==
    IF ~error.hasMessage THEN Unanswered
    ELSE IF Includes(error.message, MsgThisCardRedeemed)
    THEN Answered(ErrorJson(400, MsgCardRedeemed))
    ELSE IF Includes(error.message, MsgInvalidSecret)
    THEN Answered(ErrorJson(400, MsgInvalidSecret))
    ELSE Answered(ErrorJson(500, error.message))

\* redeemCatch with the last line, the answer 500, left out
redeemCatchSilent(error) ==
    IF ~error.hasMessage THEN Unanswered
    ELSE IF Includes(error.message, MsgThisCardRedeemed)
    THEN Answered(ErrorJson(400, MsgCardRedeemed))
    ELSE IF Includes(error.message, MsgInvalidSecret)
    THEN Answered(ErrorJson(400, MsgInvalidSecret))
    ELSE Unanswered

\* The catch block of /api/redeem.  error.message.includes(...) throws
\* inside the catch when the thrown value has no message: the handler itself
\* then writes nothing to res.  The calls the handlers await throw Error
\* objects, which have a message.
redeemCatch(error) ==
    IF ~error.hasMessage THEN Unanswered
    ELSE IF Includes(error.message, MsgThisCardRedeemed)
    THEN Answered(ErrorJson(400, MsgCardRedeemed))
    ELSE IF Includes(error.message, MsgInvalidSecret)
    THEN Answered(ErrorJson(400, MsgInvalidSecret))
    ELSE Answered(ErrorJson(500, MsgFailedRedeem))

\* the redemption message signed with the service wallet's key
signRedemptionByOperator(privateKey, cardId, recipientAddress) ==
    [signer |-> SERVICE_PRIVATE_KEY, cardId |-> cardId, to |-> recipientAddress]

\* the texts that are a private key: 32 bytes in hex
PrivateKeys == {"key-c1", "key-c2", "key-c3", SERVICE_PRIVATE_KEY}

\* new ethers.Wallet(privateKey), line 241: throws for a text that is no
\* private key, the text in the message of the error
newWallet(privateKey) ==
    IF privateKey \in PrivateKeys THEN Returned(privateKey)
    ELSE Thrown(<<"invalid", "hexlify", "value", privateKey>>)

\* ethers.utils.solidityKeccak256 of lines 244 to 247: the value of type
\* 'address' goes through arrayify, which throws for every text that is not
\* 0x and hex digits (hex digits with no 0x and an ICAP address among them),
\* the text in the message of the error
solidityKeccak256(cardId, recipientAddress) ==
    IF recipientAddress \in HexAddresses
    THEN Returned(<<"Redeem card:", cardId, "to:", recipientAddress>>)
    ELSE Thrown(<<"invalid", "arrayify", "value", recipientAddress>>)

\* the message hash of lines 244 to 247, signed by the wallet made from
\* privateKey (lines 250, 251)
signRedemption(privateKey, cardId, recipientAddress) ==
    [signer |-> privateKey, cardId |-> cardId, to |-> recipientAddress]

\* the margin rounded up
GasLimitForRoundsUp(gasEstimate) == (gasEstimate * 120 + 99) \div 100

\* gasEstimate.mul(120).div(100)
GasLimitFor(gasEstimate) == (gasEstimate * 120) \div 100

----------------------------------------------------------------------------
(* POST /api/card-info *)

OnlyRequests == UNCHANGED <<tx, active, flips, registry, dIn, dOut>>

Arrives(r, handler, cardId, cardSecret, recipientAddress) ==
    [IdleRequest EXCEPT !.handler = handler, !.cardId = cardId,
                        !.cardSecret = cardSecret,
                        !.recipientAddress = recipientAddress]

\* the handler calls out and waits for the answer
Called(request, name, pc) ==
    [request EXCEPT !.calls = Append(@, name), !.pc = pc]

\* the handler waits at an await for a promise that is settled already: it
\* goes on in a later turn of the event loop
Awaits(request, pc) == [request EXCEPT !.pc = pc]

\* await response.json() of an answer that is ok
ReadsBody(request, out) ==
    Awaits([Fetched(request, out) EXCEPT !.body = out], "json")

\* getTokenInfo, lines 97 to 108: it returns at once for the native asset,
\* and for a token it calls symbol() and decimals() of the token contract
getTokenInfoCalled(request) ==
    IF request.card.tokenAddress = AddressZero
    THEN Awaits([request EXCEPT !.tokenInfo =
                    getTokenInfo(request.card.tokenAddress, request.card.chainId,
                                 NoQuery)],
                "tokenInfo")
    ELSE Called(request, "tokenQuery", "tokenQuery")

\* getTokenInfo, lines 108 to 112: symbol() and decimals() returned, or one
\* of them threw and the catch block gives the generic token
getTokenInfoQueried(request, query) ==
    Awaits([request EXCEPT !.tokenQueryFailed = ~query.ok,
                           !.tokenInfo = getTokenInfo(request.card.tokenAddress,
                                                      request.card.chainId, query)],
           "tokenInfo")

\* cardInfoBegin keeping what earlier lookups answered: a card that another
\* request has looked up is answered from that request, with no fetch
cardInfoBeginCached(request) ==
    IF request.cardId = ""
    THEN Ended(request, Answered(ErrorJson(400, MsgCardIdRequired)))
    ELSE IF \E q \in Requests : /\ req[q].handler = "card-info"
                                /\ req[q].cardId = request.cardId
                                /\ req[q].response.status = 200
    THEN LET q == CHOOSE q \in Requests : /\ req[q].handler = "card-info"
                                          /\ req[q].cardId = request.cardId
                                          /\ req[q].response.status = 200
         IN  Ended([request EXCEPT !.card = req[q].card], Answered(req[q].response))
    ELSE Called(request, "fetch", "fetch")

\* lines 139 to 143: up to the fetch
cardInfoBegin(request) ==
    IF request.cardId = ""
    THEN Ended(request, Answered(ErrorJson(400, MsgCardIdRequired)))
    ELSE Called(request, "fetch", "fetch")

CardInfo(r, cardId) ==
    /\ req[r].pc = "idle"
    /\ req' = [req EXCEPT ![r] = cardInfoBegin(Arrives(r, "card-info", cardId, <<>>, ""))]
    /\ OnlyRequests

\* lines 143 to 151: the fetch threw, or the registry answered: an answer
\* that is not ok ends the request, the body of one that is ok is read
cardInfoFetched(request, out) ==
    IF out.kind = "throw" THEN Caught(request, "fetch", cardInfoCatch(out.error))
    ELSE IF ~ResponseOk(out.status)
    THEN IF out.status = 404
         THEN Ended(Fetched(request, out), Answered(ErrorJson(404, MsgCardNotFound)))
         ELSE Caught(Fetched(request, out), "fetch",
                     cardInfoCatch(Error(<<"API", "error:", ToString(out.status)>>)))
    ELSE ReadsBody(request, out)

CardInfoFetched(r, out) ==
    /\ req[r].pc = "fetch"
    /\ req[r].handler = "card-info"
    /\ out \in RegistryOutcomes(req[r].cardId)
    /\ req' = [req EXCEPT ![r] = cardInfoFetched(req[r], out)]
    /\ OnlyRequests

\* lines 151 to 155: response.json() gave the card, or threw; the provider
\* is made and getTokenInfo is called
cardInfoParsed(request) ==
    IF request.body.kind = "body"
    THEN Caught([request EXCEPT !.body = NoBody], "json",
                cardInfoCatch(request.body.error))
    ELSE IF ~getProvider(request.body.card.chainId).ok
    THEN Caught([request EXCEPT !.card = request.body.card, !.body = NoBody],
                "provider", cardInfoCatch(getProvider(request.body.card.chainId).error))
    ELSE getTokenInfoCalled([request EXCEPT !.card = request.body.card,
                                            !.body = NoBody])

CardInfoParsed(r) ==
    /\ req[r].pc = "json"
    /\ req[r].handler = "card-info"
    /\ req' = [req EXCEPT ![r] = cardInfoParsed(req[r])]
    /\ OnlyRequests

\* symbol() and decimals() settle inside getTokenInfo, which returns
CardInfoTokenQueried(r, query) ==
    /\ req[r].pc = "tokenQuery"
    /\ req[r].handler = "card-info"
    /\ query \in TokenQueryOutcomes
    /\ req' = [req EXCEPT ![r] = getTokenInfoQueried(req[r], query)]
    /\ OnlyRequests

\* cardInfoTokenInfo with the failure of the token query reaching the
\* handler's catch block
cardInfoTokenInfoFails(request) ==
    IF request.tokenQueryFailed
    THEN Caught(request, "tokenQuery",
                cardInfoCatch(Error(<<"call", "revert", "exception">>)))
    ELSE Ended(request, Answered(CardInfoJson(request.card, request.tokenInfo)))

\* lines 155 to 171: getTokenInfo has returned, the card is answered
cardInfoTokenInfo(request) ==
    Ended(request, Answered(CardInfoJson(request.card, request.tokenInfo)))

CardInfoTokenInfo(r) ==
    /\ req[r].pc = "tokenInfo"
    /\ req[r].handler = "card-info"
    /\ req' = [req EXCEPT ![r] = cardInfoTokenInfo(req[r])]
    /\ OnlyRequests

----------------------------------------------------------------------------
(* POST /api/verify-secret *)

\* lines 181 to 187
verifySecretBegin(request) ==
    IF request.cardId = "" \/ request.cardSecret = <<>>
    THEN Ended(request, Answered(ErrorJson(400, MsgIdSecretRequired)))
    ELSE Called(request, "fetch", "fetch")

VerifySecret(r, cardId, cardSecret) ==
    /\ req[r].pc = "idle"
    /\ req' = [req EXCEPT ![r] =
                  verifySecretBegin(Arrives(r, "verify-secret", cardId, cardSecret, ""))]
    /\ OnlyRequests

\* lines 187 to 192
verifySecretFetched(request, out) ==
    IF out.kind = "throw" THEN Caught(request, "fetch", verifySecretCatch(out.error))
    ELSE IF ~ResponseOk(out.status)
    THEN Ended(Fetched(request, out), Answered(ErrorJson(404, MsgCardNotFound)))
    ELSE ReadsBody(request, out)

VerifySecretFetched(r, out) ==
    /\ req[r].pc = "fetch"
    /\ req[r].handler = "verify-secret"
    /\ out \in RegistryOutcomes(req[r].cardId)
    /\ req' = [req EXCEPT ![r] = verifySecretFetched(req[r], out)]
    /\ OnlyRequests

\* decryptPrivateKey is called: it has no await, so it runs to its end at
\* the call, and the handler waits for the promise it returned
decryptCalled(request) ==
    [request EXCEPT !.calls = Append(@, "decrypt"),
                    !.decrypted = decryptPrivateKey(request.card.encryptedPrivateKey,
                                                    request.cardSecret),
                    !.pc = "decrypt"]

\* lines 192 to 200: response.json() gave the card, or threw
verifySecretParsed(request) ==
    IF request.body.kind = "body"
    THEN Caught([request EXCEPT !.body = NoBody], "json",
                verifySecretCatch(request.body.error))
    ELSE IF ~request.body.card.active
    THEN Ended([request EXCEPT !.card = request.body.card, !.body = NoBody],
               Answered(ErrorJson(400, MsgThisCardRedeemed)))
    ELSE decryptCalled([request EXCEPT !.card = request.body.card, !.body = NoBody])

VerifySecretParsed(r) ==
    /\ req[r].pc = "json"
    /\ req[r].handler = "verify-secret"
    /\ req' = [req EXCEPT ![r] = verifySecretParsed(req[r])]
    /\ OnlyRequests

\* lines 200 to 204: decryptPrivateKey returned, or threw into the inner catch
verifySecretDecrypted(request) ==
    IF request.decrypted.ok
    THEN Ended(request, Answered(Json(200, {<<"valid", Bool(TRUE)>>})))
    ELSE Ended(request, Answered(ErrorJson(400, MsgInvalidSecret)))

VerifySecretDecrypted(r) ==
    /\ req[r].pc = "decrypt"
    /\ req[r].handler = "verify-secret"
    /\ req' = [req EXCEPT ![r] = verifySecretDecrypted(req[r])]
    /\ OnlyRequests

----------------------------------------------------------------------------
(* POST /api/redeem *)

\* lines 214 to 226
redeemBegin(request) ==
    IF request.cardId = "" \/ request.cardSecret = <<>> \/ request.recipientAddress = ""
    THEN Ended(request, Answered(ErrorJson(400, MsgAllRequired)))
    ELSE IF ~isAddress(request.recipientAddress)
    THEN Ended(request, Answered(ErrorJson(400, MsgInvalidRecipient)))
    ELSE Called(request, "fetch", "fetch")

Redeem(r, cardId, cardSecret, recipientAddress) ==
    /\ req[r].pc = "idle"
    /\ req' = [req EXCEPT ![r] =
                  redeemBegin(Arrives(r, "redeem", cardId, cardSecret, recipientAddress))]
    /\ OnlyRequests

\* the arguments of contract.estimateGas.redeemCard at line 260
EstimateOf(request) ==
    [cardId |-> request.cardId, to |-> request.recipientAddress,
     signature |-> request.signature, partner |-> AddressZero]

\* the pre-check of line 233 left out
cardNotActiveIgnored(card) == FALSE

\* line 233: if (!card.active)
cardNotActive(card) == ~card.active

\* lines 226 to 231
redeemFetched(request, out) ==
    IF out.kind = "throw" THEN Caught(request, "fetch", redeemCatch(out.error))
    ELSE IF ~ResponseOk(out.status)
    THEN Ended(Fetched(request, out), Answered(ErrorJson(404, MsgCardNotFound)))
    ELSE ReadsBody(request, out)

RedeemFetched(r, out) ==
    /\ req[r].pc = "fetch"
    /\ req[r].handler = "redeem"
    /\ out \in RegistryOutcomes(req[r].cardId)
    /\ req' = [req EXCEPT ![r] = redeemFetched(req[r], out)]
    /\ OnlyRequests

\* lines 231 to 238: response.json() gave the card, or threw
redeemParsed(request) ==
    IF request.body.kind = "body"
    THEN Caught([request EXCEPT !.body = NoBody], "json",
                redeemCatch(request.body.error))
    ELSE IF cardNotActive(request.body.card)
    THEN Ended([request EXCEPT !.card = request.body.card, !.body = NoBody],
               Answered(ErrorJson(400, MsgThisCardRedeemed)))
    ELSE decryptCalled([request EXCEPT !.card = request.body.card, !.body = NoBody])

RedeemParsed(r) ==
    /\ req[r].pc = "json"
    /\ req[r].handler = "redeem"
    /\ req' = [req EXCEPT ![r] = redeemParsed(req[r])]
    /\ OnlyRequests

\* lines 238 to 251: decryptPrivateKey returned the key, or threw; the card
\* wallet is made, the message is hashed and signMessage is called
redeemDecrypted(request) ==
    IF ~request.decrypted.ok
    THEN Caught(request, "decrypt", redeemCatch(request.decrypted.error))
    ELSE IF ~newWallet(request.decrypted.value).ok
    THEN Caught(request, "wallet", redeemCatch(newWallet(request.decrypted.value).error))
    ELSE IF ~solidityKeccak256(request.cardId, request.recipientAddress).ok
    THEN Caught(request, "hash",
                redeemCatch(solidityKeccak256(request.cardId,
                                              request.recipientAddress).error))
    ELSE Called([request EXCEPT !.signature =
                    signRedemption(request.decrypted.value, request.cardId,
                                   request.recipientAddress)],
                "sign", "sign")

RedeemDecrypted(r) ==
    /\ req[r].pc = "decrypt"
    /\ req[r].handler = "redeem"
    /\ req' = [req EXCEPT ![r] = redeemDecrypted(req[r])]
    /\ OnlyRequests

\* lines 251 to 260: the signature is there; the provider, the service
\* wallet and the contract are made and the gas estimate is asked for
redeemSigned(request) ==
    IF ~getProvider(request.card.chainId).ok
    THEN Caught(request, "provider", redeemCatch(getProvider(request.card.chainId).error))
    ELSE Called([request EXCEPT !.estimate = EstimateOf(request)],
                "estimateGas", "estimate")

RedeemSigned(r) ==
    /\ req[r].pc = "sign"
    /\ req' = [req EXCEPT ![r] = redeemSigned(req[r])]
    /\ OnlyRequests

\* redeemGasEstimated asking for the estimate again when it failed
redeemGasEstimatedRetries(request, out) ==
    IF ~out.ok THEN Called(request, "estimateGas", "estimate")
    ELSE Called([request EXCEPT !.gasEstimate = out.value,
                                !.gasLimit = GasLimitFor(out.value)],
                "getGasPrice", "gasPrice")

\* lines 260 to 264 and 123, 124: the estimate returns or throws;
\* getOptimalGasPrice is called and asks the provider for the gas price
redeemGasEstimated(request, out) ==
    IF ~out.ok THEN Caught(request, "estimateGas", redeemCatch(out.error))
    ELSE Called([request EXCEPT !.gasEstimate = out.value,
                                !.gasLimit = GasLimitFor(out.value)],
                "getGasPrice", "gasPrice")

RedeemGasEstimated(r, out) ==
    /\ req[r].pc = "estimate"
    /\ out \in EstimateOutcomes(req[r].cardId, req[r].recipientAddress, req[r].signature)
    /\ req' = [req EXCEPT ![r] = redeemGasEstimated(req[r], out)]
    /\ OnlyRequests

\* getOptimalGasPrice, lines 124 to 129: the first query returns and so does
\* getOptimalGasPrice, or it throws and the catch block queries again
getOptimalGasPriceFirst(request, out) ==
    IF out.ok
    THEN Awaits([request EXCEPT !.settled = out], "gasPriced")
    ELSE Called([request EXCEPT !.gasPriceThrows = @ + 1],
                "getGasPrice", "gasPriceRetry")

RedeemGasPrice(r, out) ==
    /\ req[r].pc = "gasPrice"
    /\ out \in GasPriceOutcomes
    /\ req' = [req EXCEPT ![r] = getOptimalGasPriceFirst(req[r], out)]
    /\ OnlyRequests

\* getOptimalGasPriceSecond swallowing the second failure: getOptimalGasPrice
\* returns with no gas price
getOptimalGasPriceSecondSwallows(request, out) ==
    IF out.ok
    THEN Awaits([request EXCEPT !.settled = out], "gasPriced")
    ELSE Awaits([request EXCEPT !.gasPriceThrows = @ + 1, !.settled = RpcValue(0)],
                "gasPriced")

\* getOptimalGasPrice, lines 129 to 130: the second query returns and so does
\* getOptimalGasPrice, or its failure leaves getOptimalGasPrice
getOptimalGasPriceSecond(request, out) ==
    IF out.ok
    THEN Awaits([request EXCEPT !.settled = out], "gasPriced")
    ELSE Awaits([request EXCEPT !.gasPriceThrows = @ + 1, !.settled = out],
                "gasPriced")

RedeemGasPriceRetry(r, out) ==
    /\ req[r].pc = "gasPriceRetry"
    /\ out \in GasPriceOutcomes
    /\ req' = [req EXCEPT ![r] = getOptimalGasPriceSecond(req[r], out)]
    /\ OnlyRequests

\* lines 264 to 269: getOptimalGasPrice has returned the price and
\* redeemCard is called, or it has thrown into the handler's catch
redeemGasPriced(request) ==
    IF ~request.settled.ok
    THEN Caught([request EXCEPT !.settled = NoPromise], "getGasPrice",
                redeemCatch(request.settled.error))
    ELSE Called([request EXCEPT !.gasPrice = request.settled.value,
                                !.settled = NoPromise],
                "sendTransaction", "submit")

\* the transaction naming the configured partner as fee recipient
TxOfPaysPartner(request) ==
    [state |-> "pending", cardId |-> request.cardId, to |-> request.recipientAddress,
     signature |-> request.signature, partner |-> PARTNER_ADDRESS,
     gasLimit |-> request.gasLimit, gasPrice |-> request.gasPrice,
     from |-> SERVICE_PRIVATE_KEY]

\* the transaction of lines 269 to 272
TxOf(request) ==
    [state |-> "pending", cardId |-> request.cardId, to |-> request.recipientAddress,
     signature |-> request.signature, partner |-> AddressZero,
     gasLimit |-> request.gasLimit, gasPrice |-> request.gasPrice,
     from |-> SERVICE_PRIVATE_KEY]

RedeemGasPriced(r) ==
    /\ req[r].pc = "gasPriced"
    /\ req' = [req EXCEPT ![r] = redeemGasPriced(req[r])]
    /\ OnlyRequests

\* redeemSubmitted calling redeemCard again when the call threw
redeemSubmittedResends(request, out) ==
    IF ~out.ok THEN Called(request, "sendTransaction", "submit")
    ELSE Called([request EXCEPT !.txHash = out.value], "wait", "wait")

\* redeemSubmitted going on to the answer from the broadcast transaction,
\* tx.wait() left out
redeemSubmittedNoWait(request, out) ==
    IF ~out.ok THEN Caught(request, "sendTransaction", redeemCatch(out.error))
    ELSE getTokenInfoCalled([request EXCEPT !.txHash = out.value])

\* lines 269 to 273: the transaction is broadcast, or the call throws
redeemSubmitted(request, out) ==
    IF ~out.ok THEN Caught(request, "sendTransaction", redeemCatch(out.error))
    ELSE Called([request EXCEPT !.txHash = out.value], "wait", "wait")

RedeemSubmitted(r, out) ==
    /\ req[r].pc = "submit"
    /\ out \in SendOutcomes(r)
    /\ req' = [req EXCEPT ![r] = redeemSubmitted(req[r], out)]
    /\ tx' = [tx EXCEPT ![r] = IF out.ok THEN TxOf(req[r]) ELSE @]
    /\ UNCHANGED <<active, flips, registry, dIn, dOut>>

\* redeemWaited going on whatever tx.wait() did
redeemWaitedIgnoresFailure(request, out) == getTokenInfoCalled(request)

\* lines 273 to 276: the receipt arrives and getTokenInfo is called, or
\* tx.wait() throws
redeemWaited(request, out) ==
    IF ~out.ok THEN Caught(request, "wait", redeemCatch(out.error))
    ELSE getTokenInfoCalled(request)

RedeemWaited(r, out) ==
    /\ req[r].pc = "wait"
    /\ out \in WaitOutcomes(r)
    /\ req' = [req EXCEPT ![r] = redeemWaited(req[r], out)]
    /\ OnlyRequests

\* symbol() and decimals() settle inside getTokenInfo, which returns
RedeemTokenQueried(r, query) ==
    /\ req[r].pc = "tokenQuery"
    /\ req[r].handler = "redeem"
    /\ query \in TokenQueryOutcomes
    /\ req' = [req EXCEPT ![r] = getTokenInfoQueried(req[r], query)]
    /\ OnlyRequests

\* lines 276 to 285: getTokenInfo has returned, the redemption is answered
redeemTokenInfo(request) ==
    Ended(request, Answered(RedeemJson(request, request.tokenInfo)))

RedeemTokenInfo(r) ==
    /\ req[r].pc = "tokenInfo"
    /\ req[r].handler = "redeem"
    /\ req' = [req EXCEPT ![r] = redeemTokenInfo(req[r])]
    /\ OnlyRequests

----------------------------------------------------------------------------
(* The chain and the registry *)

\* A broadcast transaction is mined: the contract runs redeemCard in one
\* step, taking the redemption or reverting.
Mine(r) ==
    /\ tx[r].state = "pending"
    /\ IF ContractAccepts(tx[r].cardId, tx[r].to, tx[r].signature)
       THEN /\ tx' = [tx EXCEPT ![r].state = "confirmed"]
            /\ active' = [active EXCEPT ![tx[r].cardId] = FALSE]
            /\ flips' = [flips EXCEPT ![tx[r].cardId] = @ + 1]
       ELSE /\ tx' = [tx EXCEPT ![r].state = "reverted"]
            /\ UNCHANGED <<active, flips>>
    /\ UNCHANGED <<req, registry, dIn, dOut>>

\* An active card leaves the active state on chain by a transaction no
\* request waits for: its creator cancels it, or a redemption that a request
\* left pending when it ended is mined.
Cancel(c) ==
    /\ active[c]
    /\ active' = [active EXCEPT ![c] = FALSE]
    /\ flips' = [flips EXCEPT ![c] = @ + 1]
    /\ UNCHANGED <<req, tx, registry, dIn, dOut>>

\* The registry API catches up with the chain.
RegistrySync(c) ==
    /\ registry[c] # active[c]
    /\ registry' = [registry EXCEPT ![c] = active[c]]
    /\ UNCHANGED <<req, tx, active, flips, dIn, dOut>>

----------------------------------------------------------------------------
(* decryptPrivateKey taken alone *)

SecretAlphabet == {"A", "a", "-", NUL}
AllSecrets == SeqsUpTo(SecretAlphabet, MaxSecretLen)

\* a secret of more bytes than the block of HMAC, and one of exactly a block
\* once its hyphen is removed
LongSecret ==
    SubSeq([i \in 1..(HmacBlockSize + 4) |-> "L"], 1, HmacBlockSize + 4)
BlockSecret == <<"-">> \o SubSeq(LongSecret, 1, HmacBlockSize)

\* long secrets whose digest holds a hyphen, or ends with a NUL byte
HyphenSecret == <<"H">> \o LongSecret
NulSecret == <<"N">> \o LongSecret

\* the secrets that are hashed
HashedSecrets == {LongSecret, HyphenSecret, NulSecret}

\* the long secrets, and the secrets whose bytes are the digest of one
LongSecrets ==
    HashedSecrets \cup {<<"-">> \o LongSecret, BlockSecret}
        \cup {Sha256(secret) : secret \in HashedSecrets}
        \cup {Sha256(LongSecret) \o <<NUL>>}

\* the secrets decryptPrivateKey is given
DecryptSecrets == AllSecrets \cup LongSecrets

Envelopes ==
    [json : BOOLEAN, fields : BOOLEAN, salt : {"s1", "s2"},
     ctLen : {0, AuthTagLength - 1, AuthTagLength, 48},
     sealKey : {pbkdf2Sync(<<"A", "A">>, "s1")}
                   \cup {pbkdf2Sync(secret, "s1") : secret \in HashedSecrets},
     tagOk : BOOLEAN, secret : {"key"}]

NoArguments == [encryptedData |-> NoEnvelope, cardSecret |-> <<>>]

Decrypt ==
    /\ dOut = NotCalled
    /\ dOut' = decryptPrivateKey(dIn.encryptedData, dIn.cardSecret)
    /\ UNCHANGED <<req, tx, active, flips, registry, dIn>>

\* decryptPrivateKey called twice on one envelope, with two secrets

\* lines 58 to 61: the key derived from the secret and the envelope's salt
derivedKey(encryptedData, cardSecret) ==
    pbkdf2Sync(StripHyphens(cardSecret), encryptedData.salt)

\* the envelopes that parse: a key is derived for these only
PairEnvelopes == {e \in Envelopes : e.json /\ e.fields}

\* the envelopes sealed with a long secret, and the others
LongEnvelopes ==
    {e \in PairEnvelopes :
        \E secret \in HashedSecrets : e.sealKey = pbkdf2Sync(secret, "s1")}
ShortEnvelopes == PairEnvelopes \ LongEnvelopes

\* an envelope and two secrets: any two short secrets on an envelope sealed
\* with a short one, and on an envelope sealed with a long one the long
\* secrets, their digests and a short secret
Pairs ==
    [encryptedData : ShortEnvelopes, cardSecret : AllSecrets, otherSecret : AllSecrets]
    \cup [encryptedData : LongEnvelopes,
          cardSecret : LongSecrets \cup {<<"A", "A">>},
          otherSecret : LongSecrets \cup {<<"A", "A">>}]

DecryptBoth ==
    /\ dOut = NotCalled
    /\ dOut' = [first |-> decryptPrivateKey(dIn.encryptedData, dIn.cardSecret),
                second |-> decryptPrivateKey(dIn.encryptedData, dIn.otherSecret),
                firstKey |-> derivedKey(dIn.encryptedData, dIn.cardSecret),
                secondKey |-> derivedKey(dIn.encryptedData, dIn.otherSecret)]
    /\ UNCHANGED <<req, tx, active, flips, registry, dIn>>

\* formatTokenAmount taken alone

MaxSigDigits == 2
SigDigitSet == {0, 1, 5, 9}
TokenDecimals == {0, 6, 8, 18}
ZeroPads == {0, 1, 17, 18, 21}

\* amounts of more digits than a double holds: 1000001500000000001,
\* 1000000499999999999, 1000000000000000001, 123456789012345678 and 2^53 + 1
LongAmounts ==
    {<<1, 0, 0, 0, 0, 0, 1, 5>> \o Zeros(10) \o <<1>>,
     <<1, 0, 0, 0, 0, 0, 0, 4, 9, 9, 9, 9, 9, 9, 9, 9, 9, 9, 9>>,
     <<1>> \o Zeros(17) \o <<1>>,
     <<1, 2, 3, 4, 5, 6, 7, 8, 9, 0, 1, 2, 3, 4, 5, 6, 7, 8>>,
     <<9, 0, 0, 7, 1, 9, 9, 2, 5, 4, 7, 4, 0, 9, 9, 3>>}

\* the amounts: up to MaxSigDigits leading digits, then zeros, and the long
\* ones
FormatAmounts ==
    {<<0>>} \cup LongAmounts \cup
    {significant \o Zeros(pad) :
        significant \in {s \in SeqsUpTo(SigDigitSet, MaxSigDigits) :
                            s # <<>> /\ s[1] # 0},
        pad \in ZeroPads}

NotFormatted == [called |-> FALSE, text |-> <<>>]

Format ==
    /\ dOut = NotFormatted
    /\ dOut' = [called |-> TRUE, text |-> formatTokenAmount(dIn.amount, dIn.decimals)]
    /\ UNCHANGED <<req, tx, active, flips, registry, dIn>>

----------------------------------------------------------------------------
(* Specifications *)

Init ==
    /\ req = [r \in Requests |-> IdleRequest]
    /\ tx = [r \in Requests |-> NoTx]
    /\ active = [c \in Cards |-> TRUE]
    /\ flips = [c \in Cards |-> 0]
    /\ registry = [c \in Cards |-> TRUE]
    /\ dIn = NoArguments
    /\ dOut = NotCalled

\* The request is over and its slot takes the next request at once, whatever
\* became of its transaction.  A transaction it leaves pending is mined with
\* no request waiting for it: the contract reverts it, which changes nothing,
\* or takes the redemption, which is the step Cancel of its card.
Recycle(r) ==
    /\ req[r].pc \in {"done", "crashed"}
    /\ req' = [req EXCEPT ![r] = IdleRequest]
    /\ tx' = [tx EXCEPT ![r] = NoTx]
    /\ UNCHANGED <<active, flips, registry, dIn, dOut>>

\* The steps of /api/card-info for the requests in R.
CardInfoSteps(R) ==
    \/ \E r \in R : \E out \in RegistryOutcomes(req[r].cardId) :
          CardInfoFetched(r, out)
    \/ \E r \in R : CardInfoParsed(r)
    \/ \E r \in R, query \in TokenQueryOutcomes : CardInfoTokenQueried(r, query)
    \/ \E r \in R : CardInfoTokenInfo(r)

\* The steps of /api/verify-secret for the requests in R.
VerifySecretSteps(R) ==
    \/ \E r \in R : \E out \in RegistryOutcomes(req[r].cardId) :
          VerifySecretFetched(r, out)
    \/ \E r \in R : VerifySecretParsed(r)
    \/ \E r \in R : VerifySecretDecrypted(r)

LookupSteps(R) ==
    \/ CardInfoSteps(R)
    \/ VerifySecretSteps(R)

\* The steps of /api/redeem after the fetch, for the requests in R.
RedeemResumed(R) ==
    \/ \E r \in R : RedeemParsed(r)
    \/ \E r \in R : RedeemDecrypted(r)
    \/ \E r \in R : RedeemSigned(r)
    \/ \E r \in R :
          \E out \in EstimateOutcomes(req[r].cardId, req[r].recipientAddress,
                                      req[r].signature) :
             RedeemGasEstimated(r, out)
    \/ \E r \in R, out \in GasPriceOutcomes : RedeemGasPrice(r, out)
    \/ \E r \in R, out \in GasPriceOutcomes : RedeemGasPriceRetry(r, out)
    \/ \E r \in R : RedeemGasPriced(r)
    \/ \E r \in R : \E out \in SendOutcomes(r) : RedeemSubmitted(r, out)
    \/ \E r \in R : \E out \in WaitOutcomes(r) : RedeemWaited(r, out)
    \/ \E r \in R, query \in TokenQueryOutcomes : RedeemTokenQueried(r, query)
    \/ \E r \in R : RedeemTokenInfo(r)

\* The steps of /api/redeem after the fetch, and the mining of the
\* transactions the requests in R broadcast.
RedeemAfterFetch(R) ==
    \/ RedeemResumed(R)
    \/ \E r \in R : Mine(r)

RedeemSteps(R) ==
    \/ \E r \in R : \E out \in RegistryOutcomes(req[r].cardId) :
          RedeemFetched(r, out)
    \/ RedeemAfterFetch(R)

\* One request at a time, any request after any other, while cards are
\* cancelled on chain and the registry follows the chain with a delay.
Next ==
    \/ \E r \in Serial, cardId \in CardIdInputs : CardInfo(r, cardId)
    \/ \E r \in Serial, cardId \in CardIdInputs, cardSecret \in SecretInputs :
          VerifySecret(r, cardId, cardSecret)
    \/ \E r \in Serial, cardId \in CardIdInputs, cardSecret \in SecretInputs,
          recipientAddress \in RecipientInputs :
          Redeem(r, cardId, cardSecret, recipientAddress)
    \/ LookupSteps(Serial)
    \/ RedeemSteps(Serial)
    \/ \E r \in Serial : Recycle(r)
    \/ \E c \in Cards : Cancel(c)
    \/ \E c \in Cards : RegistrySync(c)

Spec == Init /\ [][Next]_vars

\* the answers of the registry with the one status 200 for a known card
RaceOutcomes(cardId) == {out \in RegistryOutcomes(cardId) : out.status # 201}

\* Two redemptions with the issued secret, of the same card or of two cards,
\* interleaved in every way.
NextRace ==
    \/ \E r \in Requests, cardId \in RaceCards, recipientAddress \in WellFormedAddresses :
          Redeem(r, cardId, IssuedSecret, recipientAddress)
    \/ \E r \in Requests : \E out \in RaceOutcomes(req[r].cardId) :
          RedeemFetched(r, out)
    \/ RedeemAfterFetch(Requests)
    \/ \E c \in Cards : RegistrySync(c)

SpecRace == Init /\ [][NextRace]_vars

InitDecrypt ==
    /\ req = [r \in Requests |-> IdleRequest]
    /\ tx = [r \in Requests |-> NoTx]
    /\ active = [c \in Cards |-> TRUE]
    /\ flips = [c \in Cards |-> 0]
    /\ registry = [c \in Cards |-> TRUE]
    /\ dIn \in [encryptedData : Envelopes, cardSecret : DecryptSecrets]
    /\ dOut = NotCalled

NextDecrypt == Decrypt

SpecDecrypt == InitDecrypt /\ [][NextDecrypt]_vars

----------------------------------------------------------------------------
(* Every await of a handler returns or throws.                             *)

CaseCard == "c2"
CaseRecipient == "0xA"
CaseSecrets == {IssuedSecret, <<"a", "-", "b">>}

\* a step of the handler of r
Resumes(r) ==
    \/ LookupSteps({r})
    \/ \E out \in RegistryOutcomes(req[r].cardId) : RedeemFetched(r, out)
    \/ RedeemResumed({r})

\* One request at a time to any of the three endpoints, with any body, while
\* the cards that can be redeemed are cancelled on chain and the registry
\* follows.
NextAnswer ==
    \/ \E r \in Serial, cardId \in CardIdInputs : CardInfo(r, cardId)
    \/ \E r \in Serial, cardId \in CardIdInputs, cardSecret \in SecretInputs :
          VerifySecret(r, cardId, cardSecret)
    \/ \E r \in Serial, cardId \in CardIdInputs, cardSecret \in SecretInputs,
          recipientAddress \in RecipientInputs :
          Redeem(r, cardId, cardSecret, recipientAddress)
    \/ \E r \in Serial : Resumes(r)
    \/ \E r \in Serial : Mine(r)
    \/ \E r \in Serial : Recycle(r)
    \/ \E c \in RaceCards : Cancel(c)
    \/ \E c \in RaceCards : RegistrySync(c)

\* every await of the handler settles: the step after it is taken
SpecAnswer ==
    Init /\ [][NextAnswer]_vars /\ \A r \in Serial : WF_vars(Resumes(r))

\* Two requests for one card, each with the secret as issued or in lower
\* case, interleaved in every way.
NextCase ==
    \/ \E r \in Requests, cardSecret \in CaseSecrets :
          VerifySecret(r, CaseCard, cardSecret)
    \/ \E r \in Requests, cardSecret \in CaseSecrets :
          Redeem(r, CaseCard, cardSecret, CaseRecipient)
    \/ VerifySecretSteps(Requests)
    \/ RedeemSteps(Requests)
    \/ \E c \in Cards : RegistrySync(c)

SpecCase == Init /\ [][NextCase]_vars

InitPair ==
    /\ req = [r \in Requests |-> IdleRequest]
    /\ tx = [r \in Requests |-> NoTx]
    /\ active = [c \in Cards |-> TRUE]
    /\ flips = [c \in Cards |-> 0]
    /\ registry = [c \in Cards |-> TRUE]
    /\ dIn \in Pairs
    /\ dOut = NotCalled

NextPair == DecryptBoth

SpecPair == InitPair /\ [][NextPair]_vars

InitFormat ==
    /\ req = [r \in Requests |-> IdleRequest]
    /\ tx = [r \in Requests |-> NoTx]
    /\ active = [c \in Cards |-> TRUE]
    /\ flips = [c \in Cards |-> 0]
    /\ registry = [c \in Cards |-> TRUE]
    /\ dIn \in [amount : FormatAmounts, decimals : TokenDecimals]
    /\ dOut = NotFormatted

NextFormat == Format

SpecFormat == InitFormat /\ [][NextFormat]_vars

\* Two slots of requests, one after the other or interleaved, while cards
\* are cancelled on chain and the registry follows.  Both slots take lookups
\* and one takes redemptions too, so that each endpoint runs before, after
\* and during each of the others (two redemptions side by side are SpecRace).
SlotCards == {"c1", "c2"}
Redeemers == {"r2"}

NextSlots ==
    \/ \E r \in Requests, cardId \in SlotCards : CardInfo(r, cardId)
    \/ \E r \in Requests, cardId \in SlotCards :
          VerifySecret(r, cardId, IssuedSecret)
    \/ \E r \in Redeemers, cardId \in SlotCards :
          Redeem(r, cardId, IssuedSecret, CaseRecipient)
    \/ \E r \in Requests : Resumes(r)
    \/ \E r \in Requests : Mine(r)
    \/ \E c \in SlotCards : Cancel(c)
    \/ \E c \in SlotCards : RegistrySync(c)

SpecSlots == Init /\ [][NextSlots]_vars

----------------------------------------------------------------------------
(* Properties *)

Status(r) == req[r].response.status
Made(r, name) == Count(req[r].calls, name)

\* the request answered {success: true, ...}
Success(r) ==
    /\ req[r].handler = "redeem"
    /\ Status(r) = 200
    /\ <<"success", Bool(TRUE)>> \in req[r].response.body

\* the secret is the one the envelope was sealed with, and the envelope is whole
SecretOpens(envelope, cardSecret) ==
    /\ envelope.json
    /\ envelope.fields
    /\ envelope.ctLen >= AuthTagLength
    /\ envelope.tagOk
    /\ envelope.sealKey = pbkdf2Sync(StripHyphens(cardSecret), envelope.salt)

\* C1: a /api/redeem request whose fetched card has active = false ends with
\* 400 'This card has already been redeemed or cancelled', and it asks for no
\* gas estimate and submits no transaction.
C1_InactiveCardIsRefused ==
    \A r \in Requests :
        (req[r].handler = "redeem" /\ req[r].card.known /\ ~req[r].card.active) =>
            /\ req[r].pc = "done"
            /\ req[r].response = ErrorJson(400, MsgThisCardRedeemed)
            /\ Made(r, "estimateGas") = 0
            /\ Made(r, "sendTransaction") = 0
            /\ tx[r].state = "none"

C1_Witness ==
    \E r \in Requests :
        /\ req[r].handler = "redeem"
        /\ req[r].card.known
        /\ ~req[r].card.active
        /\ req[r].pc = "done"

\* C2: a /api/redeem request with a missing cardId, cardSecret or
\* recipientAddress, or with a recipientAddress that has not the syntax of
\* an address (0x and 40 hex digits), is answered 400 with no call made: no
\* registry fetch, no RPC call, no transaction.
C2_BadInputIsRefusedOffline ==
    \A r \in Requests :
        ( /\ req[r].handler = "redeem"
          /\ \/ req[r].cardId = ""
             \/ req[r].cardSecret = <<>>
             \/ req[r].recipientAddress \notin HexAddresses ) =>
            /\ req[r].pc = "done"
            /\ Status(r) = 400
            /\ req[r].calls = <<>>
            /\ req[r].registryStatus = 0
            /\ tx[r].state = "none"

\* C3: a /api/redeem request calls redeemCard for submission at most once,
\* and a request that answered success = true called it exactly once and
\* its transaction was broadcast.
C3_AtMostOneSubmission ==
    \A r \in Requests :
        /\ Made(r, "sendTransaction") <= 1
        /\ Success(r) => (Made(r, "sendTransaction") = 1 /\ tx[r].state # "none")

C3_Witness ==
    \E r \in Requests : Success(r) /\ Made(r, "sendTransaction") = 1

\* C4: of two interleaved /api/redeem requests for the same card with the
\* issued secret, the card goes from active to inactive at most once, at
\* most one request answers success = true, and the other one, once over,
\* has answered an error.
C4_RaceHasOneWinner ==
    /\ \A c \in Cards : flips[c] <= 1
    /\ \A r1, r2 \in Requests :
          (r1 # r2 /\ req[r1].cardId = req[r2].cardId /\ Success(r1)) =>
              /\ ~Success(r2)
              /\ req[r2].pc # "crashed"
              /\ req[r2].pc = "done" => Status(r2) \in {400, 404, 500}

\* both passed the pre-check and both submitted; one transaction was taken,
\* the other reverted
C4_Witness ==
    \E r1, r2 \in Requests :
        /\ r1 # r2
        /\ req[r1].cardId = req[r2].cardId
        /\ Success(r1)
        /\ tx[r1].state = "confirmed"
        /\ tx[r2].state = "reverted"
        /\ req[r2].card.active
        /\ req[r2].pc = "done"
        /\ Status(r2) = 500

\* C5: a /api/redeem request on an active card with a secret that does not
\* open the card's envelope is answered 400 'Invalid card secret'; nothing
\* is signed, no gas estimate is asked for, no transaction is submitted.
C5_WrongSecretIsRefused ==
    \A r \in Requests :
        ( /\ req[r].handler = "redeem"
          /\ req[r].card.known
          /\ req[r].card.active
          /\ ~SecretOpens(req[r].card.encryptedPrivateKey, req[r].cardSecret) ) =>
            /\ req[r].pc \in {"decrypt", "done"}
            /\ req[r].pc = "done" => req[r].response = ErrorJson(400, MsgInvalidSecret)
            /\ req[r].decrypted = Thrown(MsgInvalidSecret)
            /\ req[r].signature = NoSignature
            /\ Made(r, "sign") = 0
            /\ Made(r, "estimateGas") = 0
            /\ Made(r, "sendTransaction") = 0
            /\ tx[r].state = "none"

C5_Witness ==
    \E r \in Requests :
        /\ req[r].handler = "redeem"
        /\ req[r].card.known
        /\ req[r].card.active
        /\ ~SecretOpens(req[r].card.encryptedPrivateKey, req[r].cardSecret)
        /\ Made(r, "decrypt") = 1
        /\ Status(r) = 400

ValidJson == Json(200, {<<"valid", Bool(TRUE)>>})

\* C6: /api/verify-secret answers {valid: true} exactly when the fetched
\* card is active and the secret opens its envelope; an active card with
\* another secret gives 400 'Invalid card secret', and an inactive card gives
\* 400 'This card has already been redeemed or cancelled' with no decryption
\* attempted.
C6_VerifySecretAnswer ==
    \A r \in Requests :
        (req[r].handler = "verify-secret" /\ req[r].pc = "done") =>
            LET card == req[r].card
                opens == SecretOpens(card.encryptedPrivateKey, req[r].cardSecret)
            IN  /\ req[r].response = ValidJson <=> (card.known /\ card.active /\ opens)
                /\ (card.known /\ card.active /\ ~opens) =>
                       req[r].response = ErrorJson(400, MsgInvalidSecret)
                /\ (card.known /\ ~card.active) =>
                       /\ req[r].response = ErrorJson(400, MsgThisCardRedeemed)
                       /\ Made(r, "decrypt") = 0

C6_Witness ==
    \E r \in Requests :
        /\ req[r].handler = "verify-secret"
        /\ req[r].card.active
        /\ Made(r, "decrypt") = 1
        /\ req[r].response = ValidJson

\* C7: in each of the three handlers a 404 of the registry is answered 404
\* 'Card not found', and any other status of the registry that is not a
\* success is answered 500, never 404.
C7_RegistryStatusMapping ==
    \A r \in Requests :
        (req[r].handler # "none" /\ req[r].pc = "done") =>
            /\ req[r].registryStatus = 404 =>
                   req[r].response = ErrorJson(404, MsgCardNotFound)
            /\ ( /\ req[r].registryStatus # 0
                 /\ ~ResponseOk(req[r].registryStatus)
                 /\ req[r].registryStatus # 404 ) => Status(r) = 500

ExecutionStages == {"estimateGas", "getGasPrice", "sendTransaction", "wait"}

\* C8: /api/redeem answers 500 whenever the gas estimate, the gas-price
\* query, the submission or the confirmation wait fails, whatever the text
\* of the error, and it answers 400 only for input, secret and card-state
\* errors.
C8_ExecutionFailuresAre500 ==
    \A r \in Requests :
        (req[r].handler = "redeem" /\ req[r].pc = "done") =>
            /\ req[r].failed \in ExecutionStages => Status(r) = 500
            /\ Status(r) = 400 => req[r].failed \in {"", "decrypt"}

\* C9: every failure inside decryptPrivateKey gives the one error 'Invalid
\* card secret', whichever step failed, and it returns a plaintext only for
\* a whole envelope and the secret it was sealed with.
C9_OneDecryptionError ==
    dOut # NotCalled =>
        IF SecretOpens(dIn.encryptedData, dIn.cardSecret)
        THEN dOut.ok
        ELSE dOut = Thrown(MsgInvalidSecret)

\* the length check failed, for the right secret
C9_Witness ==
    /\ dOut = Thrown(MsgInvalidSecret)
    /\ dIn.encryptedData.json
    /\ dIn.encryptedData.fields
    /\ dIn.encryptedData.ctLen < AuthTagLength
    /\ dIn.encryptedData.sealKey = derivedKey(dIn.encryptedData, dIn.cardSecret)

FixedErrorMessages ==
    {MsgCardIdRequired, MsgCardNotFound, MsgFailedCardInfo, MsgIdSecretRequired,
     MsgThisCardRedeemed, MsgInvalidSecret, MsgFailedVerify, MsgAllRequired,
     MsgInvalidRecipient, MsgCardRedeemed, MsgFailedRedeem}

CardKeys == {CardRecord(c, TRUE).encryptedPrivateKey.secret : c \in Cards}

\* C10: no field of any response holds the card secret of the request or a
\* card's decrypted private key, and the body of every error response is
\* {error: m} for one of the handlers' fixed messages m, which holds the text
\* of no upstream error.
C10_ResponsesKeepSecrets ==
    \A r \in Requests :
        LET response == req[r].response
        IN  /\ \A field \in response.body :
                  /\ req[r].cardSecret # <<>> => ~Includes(field[2], req[r].cardSecret)
                  /\ \A key \in CardKeys : ~Includes(field[2], <<key>>)
            /\ response.status >= 400 =>
                  \E m \in FixedErrorMessages :
                      /\ response.body = {<<"error", m>>}
                      /\ \A e \in UpstreamErrors : ~Includes(m, e.message)

\* the key was decrypted, the confirmation wait failed, and 500 was answered
C10_Witness ==
    \E r \in Requests :
        /\ req[r].handler = "redeem"
        /\ req[r].signature.signer \in CardKeys
        /\ req[r].failed = "wait"
        /\ Status(r) = 500

AwaitedCalls == {"fetch", "estimateGas", "getGasPrice", "sendTransaction", "wait"}

\* C11 as stated: within one /api/redeem request the registry fetch, the gas
\* estimate, the gas-price query, the submission and the confirmation wait
\* are each attempted at most once.
C11_NoStageIsRetried ==
    \A r \in Requests :
        req[r].handler = "redeem" =>
            \A name \in AwaitedCalls : Made(r, name) <= 1

\* C11: within one /api/redeem request the registry fetch, the gas estimate,
\* the submission and the confirmation wait are each attempted at most once
\* and the gas-price query at most twice; once a call's failure has reached
\* the handler the request is over, with an error answered and no success.
C11_OnlyGasPriceIsRetried ==
    \A r \in Requests :
        req[r].handler = "redeem" =>
            /\ \A name \in AwaitedCalls \ {"getGasPrice"} : Made(r, name) <= 1
            /\ Made(r, "getGasPrice") <= 2
            /\ req[r].failed # "" =>
                  /\ req[r].pc = "done"
                  /\ Status(r) \in {400, 500}
                  /\ ~Success(r)

\* the gas price was asked for twice, both queries threw, the request is over
C11_Witness ==
    \E r \in Requests :
        /\ req[r].handler = "redeem"
        /\ Made(r, "getGasPrice") = 2
        /\ req[r].failed = "getGasPrice"
        /\ req[r].pc = "done"

\* C12: every transaction the service submits names the configured partner
\* address as fee recipient, and the success response reports that address.
C12_PartnerEarnsFee ==
    \A r \in Requests :
        /\ tx[r].state # "none" => tx[r].partner = PARTNER_ADDRESS
        /\ Success(r) =>
              <<"partnerAddress", <<PARTNER_ADDRESS>>>> \in req[r].response.body

\* C13: in every /api/redeem request the gas estimate and the submitted
\* transaction both call redeemCard with the null address as fee recipient,
\* for the card, the recipient and the signature of the request; the
\* configured partner address reaches neither call, and the success response
\* reports no partner.
C13_FeeRecipientIsNull ==
    \A r \in Requests :
        /\ Made(r, "estimateGas") >= 1 =>
              /\ req[r].estimate.partner = AddressZero
              /\ req[r].estimate.partner # PARTNER_ADDRESS
              /\ req[r].estimate.cardId = req[r].cardId
              /\ req[r].estimate.to = req[r].recipientAddress
        /\ tx[r].state # "none" =>
              /\ tx[r].partner = AddressZero
              /\ tx[r].partner # PARTNER_ADDRESS
              /\ tx[r].cardId = req[r].estimate.cardId
              /\ tx[r].to = req[r].estimate.to
              /\ tx[r].signature = req[r].estimate.signature
        /\ Success(r) => <<"partnerAddress", <<"null">>>> \in req[r].response.body

\* an estimate was asked for, a transaction was submitted and confirmed
C13_Witness ==
    \E r \in Requests :
        /\ Made(r, "estimateGas") = 1
        /\ req[r].estimate.partner = AddressZero
        /\ tx[r].state = "confirmed"
        /\ tx[r].partner = AddressZero
        /\ Success(r)

\* C14: /api/redeem answers success = true, with the hash of its transaction,
\* only after tx.wait() returned the receipt of the confirmed transaction; a
\* request whose submission was rejected, whose transaction reverted or is
\* still pending, or whose confirmation wait failed, has answered no success.
C14_SuccessOnlyAfterConfirmation ==
    \A r \in Requests :
        /\ Success(r) =>
              /\ tx[r].state = "confirmed"
              /\ Made(r, "sendTransaction") = 1
              /\ Made(r, "wait") = 1
              /\ req[r].failed = ""
              /\ req[r].txHash = TxHash(r)
              /\ <<"txHash", <<TxHash(r)>>>> \in req[r].response.body
        /\ ( \/ req[r].failed \in {"sendTransaction", "wait"}
             \/ tx[r].state \in {"pending", "reverted"} ) => ~Success(r)

\* the transaction was broadcast, it reverted, the wait threw and the request
\* answered an error
C14_Witness ==
    \E r \in Requests :
        /\ req[r].handler = "redeem"
        /\ tx[r].state = "reverted"
        /\ req[r].failed = "wait"
        /\ req[r].pc = "done"
        /\ Status(r) = 500

Over(r) == req[r].pc \in {"done", "crashed"}

\* the handler of r that is over has answered, with an HTTP status
AnsweredOnce(r) ==
    (req[r].handler # "none" /\ Over(r)) =>
        /\ req[r].pc = "done"
        /\ Status(r) \in {200, 400, 404, 500}

\* the response of a request that is over is not written again
KeepsResponse(r) ==
    req[r].pc = "done" => (req'[r] = req[r] \/ req'[r] = IdleRequest)

\* C15: every request to one of the three endpoints, each of whose awaits
\* returns or throws, is answered in the end, once, with an HTTP status:
\* every error an upstream call throws is caught by the handler and mapped
\* to a status, no handler ends with its error uncaught and nothing answered.
C15_EveryErrorIsAnswered ==
    /\ [](\A r \in Requests : AnsweredOnce(r))
    /\ [][\A r \in Requests : KeepsResponse(r)]_vars
    /\ \A r \in Serial : (req[r].pc # "idle") ~> (req[r].pc = "done")

\* the submission of /api/redeem threw, the catch block answered 500
C15_Witness ==
    \E r \in Requests :
        /\ req[r].pc = "done"
        /\ req[r].handler = "redeem"
        /\ req[r].failed = "sendTransaction"
        /\ req[r].response = ErrorJson(500, MsgFailedRedeem)

Upper(ch) == CASE ch = "a" -> "A" [] ch = "b" -> "B" [] OTHER -> ch

\* the two secrets differ at most in the case of their letters
SameButCase(s1, s2) ==
    /\ Len(s1) = Len(s2)
    /\ \A i \in 1..Len(s1) : Upper(s1[i]) = Upper(s2[i])

\* the handler tried the secret of the request on the card's envelope
SecretTried(r) == Made(r, "decrypt") = 1 /\ req[r].pc # "decrypt"

\* the secret opened the envelope: /api/verify-secret answered valid,
\* /api/redeem went on to sign
SecretAccepted(r) ==
    IF req[r].handler = "verify-secret" THEN req[r].response = ValidJson
    ELSE Made(r, "sign") = 1

\* C16: two requests to the same endpoint (/api/verify-secret or
\* /api/redeem) for the same card, with secrets that differ only in letter
\* case, have their secrets both accepted or both rejected.
C16_SecretIsCaseInsensitive ==
    \A r1, r2 \in Requests :
        ( /\ req[r1].handler \in {"verify-secret", "redeem"}
          /\ req[r1].handler = req[r2].handler
          /\ req[r1].cardId = req[r2].cardId
          /\ SameButCase(req[r1].cardSecret, req[r2].cardSecret)
          /\ SecretTried(r1)
          /\ SecretTried(r2) ) =>
            (SecretAccepted(r1) <=> SecretAccepted(r2))

\* the two secrets are equal once every hyphen is removed
SameButHyphens(s1, s2) == SelectSeq(s1, IsNotHyphen) = SelectSeq(s2, IsNotHyphen)

\* C17: for any envelope, two secrets that are equal after removing every
\* hyphen derive the same key, and decryptPrivateKey gives the same result
\* for both: the same plaintext, or 'Invalid card secret' for both.
C17_HyphensDoNotMatter ==
    (dOut # NotCalled /\ SameButHyphens(dIn.cardSecret, dIn.otherSecret)) =>
        /\ dOut.firstKey = dOut.secondKey
        /\ dOut.first = dOut.second
        /\ dOut.first.ok \/ dOut.first = Thrown(MsgInvalidSecret)

\* two secrets that differ by a hyphen both opened the envelope
C17_Witness ==
    /\ dOut # NotCalled
    /\ dIn.cardSecret # dIn.otherSecret
    /\ SameButHyphens(dIn.cardSecret, dIn.otherSecret)
    /\ dOut.first = Returned(dIn.encryptedData.secret)
    /\ dOut.second = Returned(dIn.encryptedData.secret)

NativeInfo(chainId) ==
    [symbol |-> CHAINS[chainId].symbol, decimals |-> CHAINS[chainId].decimals]
GenericInfo == [symbol |-> "TOKEN", decimals |-> 18]

\* C18: a /api/card-info request that fetched a card of a supported chain
\* answers 200 whatever the token query did.  For the native asset no token
\* query is made and the amount is formatted with the chain's native symbol
\* and decimals; for a token whose symbol/decimals query failed the amount is
\* formatted with the symbol TOKEN and 18 decimals.
C18_TokenQueryFailureIsAbsorbed ==
    \A r \in Requests :
        ( /\ req[r].handler = "card-info"
          /\ req[r].pc = "done"
          /\ req[r].card.known
          /\ req[r].card.chainId \in SupportedChainIds ) =>
            LET card == req[r].card
            IN  /\ Status(r) = 200
                /\ req[r].failed = ""
                /\ IF card.tokenAddress = AddressZero
                   THEN /\ Made(r, "tokenQuery") = 0
                        /\ req[r].response = CardInfoJson(card, NativeInfo(card.chainId))
                   ELSE /\ Made(r, "tokenQuery") = 1
                        /\ req[r].tokenQueryFailed =>
                              /\ req[r].response = CardInfoJson(card, GenericInfo)
                              /\ <<"formattedAmount",
                                   formatTokenAmount(card.tokenAmount, 18) \o <<" ", "TOKEN">>>>
                                     \in req[r].response.body

\* the token query of a card lookup failed and the lookup answered 200
C18_Witness ==
    \E r \in Requests :
        /\ req[r].handler = "card-info"
        /\ req[r].card.tokenAddress = TokenContract
        /\ req[r].tokenQueryFailed
        /\ Status(r) = 200
        /\ <<"formattedAmount", <<"0", " ", "TOKEN">>>> \in req[r].response.body

\* the stages of /api/redeem that call out, in the order of the handler
RedeemOrder ==
    <<"fetch", "decrypt", "sign", "estimateGas", "getGasPrice", "sendTransaction",
      "wait", "tokenQuery">>

StageIndex(name) == CHOOSE i \in 1..Len(RedeemOrder) : RedeemOrder[i] = name

\* each call is the one that follows the call before it in RedeemOrder, or
\* the second gas-price query of the gas-price stage
InOrder(calls) ==
    \A i \in 1..Len(calls) :
        IF i = 1 THEN calls[1] = "fetch"
        ELSE \/ StageIndex(calls[i]) = StageIndex(calls[i - 1]) + 1
             \/ calls[i] = "getGasPrice" /\ calls[i - 1] = "getGasPrice"

LastCall(r) == req[r].calls[Len(req[r].calls)]

\* the call a stage belongs to: reading the body follows the fetch, the
\* wallet and the message hash follow the decryption, the provider follows
\* the signature
CallOf(stage) ==
    CASE stage = "json" -> "fetch"
      [] stage \in {"wallet", "hash"} -> "decrypt"
      [] stage = "provider" -> "sign"
      [] OTHER -> stage

\* C19: within one /api/redeem request the stages run in the order registry
\* lookup, active check, decryption, signing, gas estimate, gas-price query,
\* submission, confirmation wait; a stage has started only if the one before
\* it succeeded; and the stage that failed is the last one of the request.
C19_StagesInOrder ==
    \A r \in Requests :
        req[r].handler = "redeem" =>
            /\ InOrder(req[r].calls)
            /\ Made(r, "decrypt") >= 1 =>
                  /\ ResponseOk(req[r].registryStatus)
                  /\ req[r].card.known
                  /\ req[r].card.active
            /\ Made(r, "sign") >= 1 =>
                  /\ SecretOpens(req[r].card.encryptedPrivateKey, req[r].cardSecret)
                  /\ req[r].card.encryptedPrivateKey.secret \in PrivateKeys
                  /\ req[r].recipientAddress \in HexAddresses
                  /\ req[r].signature =
                        signRedemption(req[r].card.encryptedPrivateKey.secret,
                                       req[r].cardId, req[r].recipientAddress)
            /\ Made(r, "estimateGas") >= 1 => req[r].estimate.signature = req[r].signature
            /\ Made(r, "getGasPrice") >= 1 => req[r].gasLimit > 0
            /\ Made(r, "sendTransaction") >= 1 => req[r].gasPrice \in GasPrices
            /\ Made(r, "wait") >= 1 => (req[r].txHash = TxHash(r) /\ tx[r].state # "none")
            /\ Made(r, "tokenQuery") >= 1 => tx[r].state = "confirmed"
            /\ req[r].failed # "" =>
                  /\ req[r].pc = "done"
                  /\ ~Success(r)
                  /\ LastCall(r) = CallOf(req[r].failed)
            /\ ( \/ (req[r].registryStatus # 0 /\ ~ResponseOk(req[r].registryStatus))
                 \/ (req[r].card.known /\ ~req[r].card.active) ) =>
                  req[r].calls = <<"fetch">>

\* the gas estimate failed: the request is over and no later stage started
C19_Witness ==
    \E r \in Requests :
        /\ req[r].handler = "redeem"
        /\ req[r].failed = "estimateGas"
        /\ req[r].calls = <<"fetch", "decrypt", "sign", "estimateGas">>
        /\ req[r].pc = "done"

\* the part of C20 that is about the queries and the submission
GasPriceQueries(r) ==
    /\ Made(r, "getGasPrice") <= 2
    /\ req[r].gasPriceThrows <= Made(r, "getGasPrice")
    /\ Made(r, "getGasPrice") = 2 => req[r].gasPriceThrows >= 1
    /\ req[r].gasPriceThrows = 2 =>
          /\ req[r].pc \in {"gasPriced", "done"}
          /\ req[r].pc = "done" => req[r].failed = "getGasPrice"
          /\ Made(r, "sendTransaction") = 0
          /\ tx[r].state = "none"
    /\ (Made(r, "getGasPrice") = 2 /\ req[r].gasPriceThrows = 1
          /\ req[r].pc \notin {"gasPriceRetry", "gasPriced"}) =>
          /\ Made(r, "sendTransaction") = 1
          /\ req[r].gasPrice \in GasPrices
          /\ tx[r].state # "none" => tx[r].gasPrice = req[r].gasPrice

\* C20: the gas price is queried a second time only if the first query
\* threw, and never a third time; if both queries threw, the request ends
\* with 500 and no transaction is submitted; if the second query succeeded,
\* the request goes on to submit with the price it returned.
C20_GasPriceRetry ==
    \A r \in Requests :
        req[r].handler = "redeem" =>
            /\ GasPriceQueries(r)
            /\ (req[r].gasPriceThrows = 2 /\ req[r].pc # "gasPriced") => Status(r) = 500

\* C21: the gas limit of the submitted transaction is floor(estimate * 120 /
\* 100) for the estimate the same request received, so it is never below
\* the estimate and never above the estimate plus a fifth of it.
C21_GasLimitIsEstimatePlusFifth ==
    \A r \in Requests :
        tx[r].state # "none" =>
            LET estimate == req[r].gasEstimate
                gasLimit == tx[r].gasLimit
            IN  /\ estimate \in GasEstimates
                /\ gasLimit = req[r].gasLimit
                /\ 100 * gasLimit <= 120 * estimate
                /\ 120 * estimate < 100 * (gasLimit + 1)
                /\ gasLimit >= estimate
                /\ 5 * gasLimit <= 6 * estimate

\* a transaction was submitted for an estimate whose margin is no whole
\* number: the limit is the margin rounded down
C21_Witness ==
    \E r \in Requests :
        /\ tx[r].state # "none"
        /\ (req[r].gasEstimate * 120) % 100 # 0
        /\ tx[r].gasLimit > req[r].gasEstimate

\* the key sealed in the envelope of the card the request fetched
CardKeyOf(r) == req[r].card.encryptedPrivateKey.secret

\* C22: the card id and the recipient given to the gas estimate and to the
\* submitted transaction are those of the request, the ones bound into the
\* signed message; the signature is made with the key decrypted from the
\* card's envelope; the operator key sends the transaction and signs no
\* redemption message.
C22_SignatureBindsRequest ==
    \A r \in Requests :
        /\ Made(r, "sign") >= 1 =>
              /\ req[r].signature.signer = CardKeyOf(r)
              /\ req[r].signature.signer # SERVICE_PRIVATE_KEY
              /\ req[r].signature.cardId = req[r].cardId
              /\ req[r].signature.to = req[r].recipientAddress
        /\ Made(r, "estimateGas") >= 1 =>
              /\ req[r].estimate.cardId = req[r].cardId
              /\ req[r].estimate.to = req[r].recipientAddress
              /\ req[r].estimate.signature = req[r].signature
        /\ tx[r].state # "none" =>
              /\ tx[r].cardId = req[r].cardId
              /\ tx[r].to = req[r].recipientAddress
              /\ tx[r].signature = req[r].signature
              /\ tx[r].signature.signer = CardKeyOf(r)
              /\ tx[r].from = SERVICE_PRIVATE_KEY

\* a transaction sent by the operator carries the card key's signature over
\* the card and the recipient of the request
C22_Witness ==
    \E r \in Requests :
        /\ tx[r].state = "confirmed"
        /\ tx[r].from = SERVICE_PRIVATE_KEY
        /\ tx[r].signature = [signer |-> "key-c2", cardId |-> "c2", to |-> "0xB"]
        /\ req[r].cardId = "c2"
        /\ req[r].recipientAddress = "0xB"

\* the amount scaled by the decimals has no fractional part
IsWhole(amount, decimals) ==
    TrimTrailingZeros(formatUnits(amount, decimals).frac) = <<>>

PointAt(text) == {i \in 1..Len(text) : text[i] = "."}

\* the digits after the decimal point of the text
FractionOf(text) ==
    IF PointAt(text) = {} THEN <<>>
    ELSE SubSeq(text, (CHOOSE i \in PointAt(text) : TRUE) + 1, Len(text))

DigitTokens == {ToString(d) : d \in 0..9}

OneToken == <<1>> \o Zeros(18)
OneAndAHalfToken == <<1, 5>> \o Zeros(17)

\* C23: formatTokenAmount renders a whole scaled amount as its digits, with
\* no decimal point; any other amount as digits with at most 6 fractional
\* digits, the last of which is no zero; 10^18 with 18 decimals gives "1"
\* and 15 * 10^17 with 18 decimals gives "1.5".
C23_FormatTokenAmount ==
    dOut.called =>
        LET text == dOut.text
            formatted == formatUnits(dIn.amount, dIn.decimals)
        IN  /\ IsWhole(dIn.amount, dIn.decimals) => text = DigitText(formatted.whole)
            /\ ~IsWhole(dIn.amount, dIn.decimals) =>
                  /\ \A i \in 1..Len(text) : text[i] \in DigitTokens \cup {"."}
                  /\ Cardinality(PointAt(text)) <= 1
                  /\ Len(FractionOf(text)) <= 6
                  /\ PointAt(text) # {} =>
                        /\ FractionOf(text) # <<>>
                        /\ text[Len(text)] # "0"
            /\ (dIn.amount = OneToken /\ dIn.decimals = 18) => text = <<"1">>
            /\ (dIn.amount = OneAndAHalfToken /\ dIn.decimals = 18) =>
                  text = <<"1", ".", "5">>

\* the request got past the validation of its body
Acted(r) ==
    \/ req[r].card.known
    \/ req[r].calls # <<>>
    \/ Status(r) \in {200, 404, 500}

\* the handler of r fetched the card itself, once, before anything else
FetchedFirst(r) ==
    /\ req[r].calls # <<>>
    /\ req[r].calls[1] = "fetch"
    /\ Made(r, "fetch") = 1

\* the two requests were given the same answers by the registry and the
\* token contract
SameUpstream(r1, r2) ==
    /\ req[r1].registryStatus = req[r2].registryStatus
    /\ req[r1].card = req[r2].card
    /\ req[r1].tokenQueryFailed = req[r2].tokenQueryFailed
    /\ req[r1].failed = req[r2].failed

Stateless ==
    /\ \A r \in Requests : (req[r].handler # "none" /\ Acted(r)) => FetchedFirst(r)
    /\ \A r1, r2 \in Requests :
          ( /\ req[r1].handler = "card-info" /\ req[r1].pc = "done"
            /\ req[r2].handler = "card-info" /\ req[r2].pc = "done"
            /\ req[r1].cardId = req[r2].cardId
            /\ SameUpstream(r1, r2) ) =>
              req[r1].response = req[r2].response

\* a step of a request writes that request and nothing else
WritesOwnRequestOnly ==
    \A r \in Requests :
        req'[r] # req[r] =>
            /\ \A q \in Requests \ {r} : req'[q] = req[q]
            /\ active' = active
            /\ registry' = registry
            /\ flips' = flips

\* C24: every handler fetches the card from the registry itself before it
\* acts; a step of a handler writes nothing but its own request; and two
\* /api/card-info requests for the same card that are given the same
\* upstream answers return identical responses.
C24_NoStateBetweenRequests == [][Stateless' /\ WritesOwnRequestOnly]_vars

\* two lookups of the same active card, both answered 200 with the same body
C24_Witness ==
    \E r1, r2 \in Requests :
        /\ r1 # r2
        /\ req[r1].handler = "card-info" /\ req[r2].handler = "card-info"
        /\ req[r1].cardId = "c2" /\ req[r2].cardId = "c2"
        /\ req[r1].card.active /\ req[r2].card.active
        /\ FetchedFirst(r1) /\ FetchedFirst(r2)
        /\ Status(r1) = 200
        /\ req[r1].response = req[r2].response

\* C25: a /api/redeem request answered 400 or 404 has broadcast no
\* transaction, and a request that did broadcast one has answered, once
\* over, success or 500.
C25_ClientErrorMeansNoSubmission ==
    \A r \in Requests :
        (req[r].handler = "redeem" /\ req[r].pc = "done") =>
            /\ Status(r) \in {400, 404} => tx[r].state = "none"
            /\ tx[r].state # "none" => Status(r) \in {200, 500}

=============================================================================
